---- MODULE Spec2Model ----
(***************************************************************************)
(* Blockforge voxel world core: chunk store and streaming (World, Chunk),  *)
(* the host's per-edit persistence (SaveSystem), the visible-face mesher   *)
(* (Chunk.build_mesh) and the swept-AABB collision routine                 *)
(* (Player._sweep_axis).                                                   *)
(*                                                                         *)
(* The chunk dimensions and the render distance are scaled down; chunk     *)
(* grids keep the packed layout of the source.  Terrain noise is replaced  *)
(* by a fixed deterministic height/biome/cave function of the world        *)
(* coordinates; trees, cacti and ores are not generated.  Lengths of the   *)
(* collision routine are fixed-point, in thousandths of a block.           *)
(***************************************************************************)
EXTENDS Integers, Sequences, FiniteSets, TLC

(* ----------------------------------------------------------------------- *)
(* Settings (src/voxel/settings.py) and block ids (src/voxel/chunk.py)     *)
(* ----------------------------------------------------------------------- *)
CHUNK_SIZE_X == 3
CHUNK_SIZE_Y == 3
CHUNK_SIZE_Z == 3
RENDER_DISTANCE == 1
MAX_CHUNK_CREATES_PER_FRAME == 1
MAX_CHUNK_MESHES_PER_FRAME == 1

BLOCK_AIR == 0
BLOCK_GRASS == 1
BLOCK_DIRT == 2
BLOCK_STONE == 3
BLOCK_BEDROCK == 4
BLOCK_SAND == 5
BLOCK_COBBLESTONE == 8
BLOCK_SANDSTONE == 10

GridLen == CHUNK_SIZE_X * CHUNK_SIZE_Y * CHUNK_SIZE_Z

Min2(a, b) == IF a < b THEN a ELSE b
Max2(a, b) == IF a > b THEN a ELSE b

(* ----------------------------------------------------------------------- *)
(* Coordinates                                                             *)
(* ----------------------------------------------------------------------- *)
\* floor(w / size) on integers: floor division, also for negative w.
chunk_coord(w, size) == w \div size

\* util.index_3d: packed 0-based index of a local cell.
index_3d(lx, y, lz) == (y * CHUNK_SIZE_Z + lz) * CHUNK_SIZE_X + lx

in_chunk_bounds(lx, y, lz) ==
    /\ 0 <= lx /\ lx < CHUNK_SIZE_X
    /\ 0 <= y  /\ y  < CHUNK_SIZE_Y
    /\ 0 <= lz /\ lz < CHUNK_SIZE_Z

\* Local coordinates of the 1-based position i of a grid list.
cell_lx(i) == (i - 1) % CHUNK_SIZE_X
cell_lz(i) == ((i - 1) \div CHUNK_SIZE_X) % CHUNK_SIZE_Z
cell_y(i)  == (i - 1) \div (CHUNK_SIZE_X * CHUNK_SIZE_Z)

(* ----------------------------------------------------------------------- *)
(* Chunk (src/voxel/chunk.py)                                              *)
(* A chunk is a record [blocks, dirty]; blocks is the Python list, held as *)
(* a sequence whose element i+1 is list element i.                         *)
(* ----------------------------------------------------------------------- *)
is_block_solid(block_id) == block_id # BLOCK_AIR

\* Chunk.__init__
Chunk_init == [blocks |-> [i \in 1..GridLen |-> BLOCK_AIR], dirty |-> TRUE]

\* Chunk.get_block_local
get_block_local(ch, lx, y, lz) ==
    IF in_chunk_bounds(lx, y, lz) THEN ch.blocks[index_3d(lx, y, lz) + 1]
    ELSE BLOCK_AIR

\* Chunk.set_block_local
set_block_local(ch, lx, y, lz, block_id) ==
    IF in_chunk_bounds(lx, y, lz)
    THEN [ch EXCEPT !.blocks[index_3d(lx, y, lz) + 1] = block_id, !.dirty = TRUE]
    ELSE ch

(* ----------------------------------------------------------------------- *)
(* Terrain (src/voxel/util.py), as a fixed function of the coordinates     *)
(* ----------------------------------------------------------------------- *)
\* util.terrain_height: an integer clamped to [1, CHUNK_SIZE_Y - 1].
terrain_height(wx, wz) ==
    LET h == 1 + ((wx + wz + 1) % 2)
    IN  Max2(1, Min2(h, CHUNK_SIZE_Y - 1))

\* util.get_biome
get_biome(wx, wz) == IF wx < 0 /\ wz < 0 THEN "desert" ELSE "plains"

\* util.generate_chunk_caves: local cells carved to air, never y = 0.
generate_chunk_caves(cx, cz) ==
    IF cx = 0 /\ cz = 1 THEN {<<1, 1, 1>>} ELSE {}

\* World._populate_chunk_blocks: the block of one cell of chunk (cx, cz).
populate_cell(cx, cz, lx, y, lz) ==
    LET wx == cx * CHUNK_SIZE_X + lx
        wz == cz * CHUNK_SIZE_Z + lz
        th == terrain_height(wx, wz)
        max_y == Min2(th, CHUNK_SIZE_Y - 1)
        layer == IF y = 0 THEN BLOCK_BEDROCK
                 ELSE IF get_biome(wx, wz) = "desert"
                      THEN IF y = th THEN BLOCK_SAND
                           ELSE IF y >= th - 4 THEN BLOCK_SANDSTONE
                           ELSE BLOCK_STONE
                      ELSE IF y = th THEN BLOCK_GRASS
                           ELSE IF y >= th - 3 THEN BLOCK_DIRT
                           ELSE BLOCK_STONE
    IN  IF y > max_y THEN BLOCK_AIR
        ELSE IF layer # BLOCK_BEDROCK /\ <<lx, y, lz>> \in generate_chunk_caves(cx, cz)
             THEN BLOCK_AIR
        ELSE layer

\* World._populate_chunk_blocks on a fresh chunk.
populate_chunk_blocks(ch, cx, cz) ==
    [ch EXCEPT !.blocks = [i \in 1..GridLen |->
                              populate_cell(cx, cz, cell_lx(i), cell_y(i), cell_lz(i))],
               !.dirty = TRUE]

(* ----------------------------------------------------------------------- *)
(* State                                                                   *)
(* ----------------------------------------------------------------------- *)
VARIABLES
    chunks,            \* World.chunks: (cx, cz) -> Chunk, the loaded chunks
    chunk_nodes,       \* keys of World.chunk_nodes: chunks with a mesh node
    preload_complete,  \* World.preload_complete
    chunk_files,       \* SaveSystem chunks directory: (cx, cz) -> saved blocks list
    last,              \* the call that produced the state, with its result
    written,           \* history: coordinate -> block id of its last successful write
    sweep,             \* a Player._sweep_axis call: its arguments and its result
    mob_system,        \* MobSystem: its mobs, spawn timer and difficulty
    player             \* Player: position, velocity, health and fall tracking

vars == <<chunks, chunk_nodes, preload_complete, chunk_files, last, written, sweep,
          mob_system, player>>

(* ----------------------------------------------------------------------- *)
(* World queries (src/voxel/world.py)                                      *)
(* C is a value of World.chunks, so that the operators can be evaluated in *)
(* the middle of a call as well as on the current state.                   *)
(* ----------------------------------------------------------------------- *)
\* World.block_id_at
block_id_at(wx, wy, wz) ==
    IF wy < 0 THEN BLOCK_BEDROCK
    ELSE IF wy = 0 THEN BLOCK_BEDROCK
    ELSE IF wy >= CHUNK_SIZE_Y THEN BLOCK_AIR
    ELSE LET h == terrain_height(wx, wz)
         IN  IF wy > h THEN BLOCK_AIR
             ELSE IF wy = h THEN BLOCK_GRASS
             ELSE IF wy >= h - 3 THEN BLOCK_DIRT
             ELSE BLOCK_STONE

\* is_solid with the terrain generator as the answer for chunks not loaded.
is_solid_in_generated(C, wx, wy, wz) ==
    IF wy < 0 THEN TRUE
    ELSE IF wy >= CHUNK_SIZE_Y THEN FALSE
    ELSE LET cx == chunk_coord(wx, CHUNK_SIZE_X)
             cz == chunk_coord(wz, CHUNK_SIZE_Z)
         IN  IF <<cx, cz>> \in DOMAIN C
             THEN is_block_solid(get_block_local(C[<<cx, cz>>],
                                                 wx - cx * CHUNK_SIZE_X, wy,
                                                 wz - cz * CHUNK_SIZE_Z))
             ELSE is_block_solid(block_id_at(wx, wy, wz))

\* World.is_solid
is_solid_in(C, wx, wy, wz) ==
    IF wy < 0 THEN TRUE
    ELSE IF wy >= CHUNK_SIZE_Y THEN FALSE
    ELSE LET cx == chunk_coord(wx, CHUNK_SIZE_X)
             cz == chunk_coord(wz, CHUNK_SIZE_Z)
         IN  IF <<cx, cz>> \in DOMAIN C
             THEN is_block_solid(get_block_local(C[<<cx, cz>>],
                                                 wx - cx * CHUNK_SIZE_X, wy,
                                                 wz - cz * CHUNK_SIZE_Z))
             ELSE FALSE

\* World.get_block
get_block_in(C, wx, wy, wz) ==
    IF wy < 0 THEN BLOCK_BEDROCK
    ELSE IF wy >= CHUNK_SIZE_Y THEN BLOCK_AIR
    ELSE LET cx == chunk_coord(wx, CHUNK_SIZE_X)
             cz == chunk_coord(wz, CHUNK_SIZE_Z)
         IN  IF <<cx, cz>> \in DOMAIN C
             THEN get_block_local(C[<<cx, cz>>],
                                  wx - cx * CHUNK_SIZE_X, wy, wz - cz * CHUNK_SIZE_Z)
             ELSE block_id_at(wx, wy, wz)

is_solid(wx, wy, wz) == is_solid_in(chunks, wx, wy, wz)
get_block(wx, wy, wz) == get_block_in(chunks, wx, wy, wz)

(* ----------------------------------------------------------------------- *)
(* Persistence (src/voxel/save_system.py)                                  *)
(* ----------------------------------------------------------------------- *)
\* SaveSystem.save_chunk: the complete block list goes to the chunk's file.
save_chunk(files, ch, cx, cz) ==
    [k \in DOMAIN files \cup {<<cx, cz>>} |->
        IF k = <<cx, cz>> THEN ch.blocks ELSE files[k]]

\* SaveSystem.save_block_edit
save_block_edit(files, C, wx, wy, wz) ==
    LET cx == wx \div CHUNK_SIZE_X
        cz == wz \div CHUNK_SIZE_Z
    IN  IF <<cx, cz>> \in DOMAIN C THEN save_chunk(files, C[<<cx, cz>>], cx, cz)
        ELSE files

\* _apply_saved_modifications that never finds a file.
apply_saved_modifications_none(ch, cx, cz, files) == ch

\* _apply_saved_modifications that installs the list of whatever file exists.
apply_saved_modifications_any(ch, cx, cz, files) ==
    IF DOMAIN files # {}
    THEN [ch EXCEPT !.blocks = files[CHOOSE k \in DOMAIN files : TRUE], !.dirty = TRUE]
    ELSE ch

\* World._apply_saved_modifications (SaveSystem.load_chunk gives the file's list)
apply_saved_modifications(ch, cx, cz, files) ==
    IF <<cx, cz>> \in DOMAIN files
    THEN [ch EXCEPT !.blocks = files[<<cx, cz>>], !.dirty = TRUE]
    ELSE ch

(* ----------------------------------------------------------------------- *)
(* Chunk lifecycle                                                         *)
(* ----------------------------------------------------------------------- *)
\* _ensure_chunk that marks the four neighbours of a created chunk dirty.
ensure_chunk_dirtying(C, cx, cz, files) ==
    IF <<cx, cz>> \in DOMAIN C THEN C
    ELSE LET ch == apply_saved_modifications(
                       populate_chunk_blocks(Chunk_init, cx, cz), cx, cz, files)
             nbs == {<<cx - 1, cz>>, <<cx + 1, cz>>, <<cx, cz - 1>>, <<cx, cz + 1>>}
         IN  [k \in DOMAIN C \cup {<<cx, cz>>} |->
                 IF k = <<cx, cz>> THEN ch
                 ELSE IF k \in nbs THEN [C[k] EXCEPT !.dirty = TRUE]
                 ELSE C[k]]

\* World._ensure_chunk
ensure_chunk(C, cx, cz, files) ==
    IF <<cx, cz>> \in DOMAIN C THEN C
    ELSE LET ch == apply_saved_modifications(
                       populate_chunk_blocks(Chunk_init, cx, cz), cx, cz, files)
         IN  [k \in DOMAIN C \cup {<<cx, cz>>} |-> IF k = <<cx, cz>> THEN ch ELSE C[k]]

(* ----------------------------------------------------------------------- *)
(* Mesher (Chunk.build_mesh): the set of emitted quads <<lx, y, lz, face>> *)
(* ----------------------------------------------------------------------- *)
FaceNames == {"top", "bottom", "px", "nx", "pz", "nz"}

\* The quick check: all six neighbours solid, the world floor counting as solid.
fully_occluded(C, wx, y, wz) ==
    /\ is_solid_in(C, wx, y + 1, wz)
    /\ (y = 0 \/ is_solid_in(C, wx, y - 1, wz))
    /\ is_solid_in(C, wx + 1, y, wz)
    /\ is_solid_in(C, wx - 1, y, wz)
    /\ is_solid_in(C, wx, y, wz + 1)
    /\ is_solid_in(C, wx, y, wz - 1)

\* The per-face tests that follow the quick check.
face_emitted(C, wx, y, wz, face) ==
    CASE face = "top"    -> ~is_solid_in(C, wx, y + 1, wz)
      [] face = "bottom" -> (y = 0 \/ ~is_solid_in(C, wx, y - 1, wz))
      [] face = "px"     -> ~is_solid_in(C, wx + 1, y, wz)
      [] face = "nx"     -> ~is_solid_in(C, wx - 1, y, wz)
      [] face = "pz"     -> ~is_solid_in(C, wx, y, wz + 1)
      [] face = "nz"     -> ~is_solid_in(C, wx, y, wz - 1)

\* Quads build_mesh emits for the block at local (lx, y, lz) of chunk (cx, cz).
block_quads(C, cx, cz, lx, y, lz) ==
    LET wx == cx * CHUNK_SIZE_X + lx
        wz == cz * CHUNK_SIZE_Z + lz
    IN  IF ~is_block_solid(get_block_local(C[<<cx, cz>>], lx, y, lz)) THEN {}
        ELSE IF fully_occluded(C, wx, y, wz) THEN {}
        ELSE {f \in FaceNames : face_emitted(C, wx, y, wz, f)}

\* Chunk.build_mesh: all quads of the chunk; the empty set is the None result.
build_mesh(C, cx, cz) ==
    UNION {{<<cell_lx(i), cell_y(i), cell_lz(i), f>> :
               f \in block_quads(C, cx, cz, cell_lx(i), cell_y(i), cell_lz(i))} :
           i \in 1..Len(C[<<cx, cz>>].blocks)}

\* The "prim.getNumPrimitives() == 0" test that ends build_mesh: no quad at all.
mesh_is_none(C, cx, cz) ==
    \A i \in 1..Len(C[<<cx, cz>>].blocks) :
        block_quads(C, cx, cz, cell_lx(i), cell_y(i), cell_lz(i)) = {}

\* World._build_mesh_for: [C, N, ret, built]; built counts build_mesh calls.
build_mesh_for(C, N, cx, cz) ==
    LET key == <<cx, cz>> IN
    IF key \notin DOMAIN C THEN [C |-> C, N |-> N, ret |-> FALSE, built |-> 0]
    ELSE IF ~C[key].dirty /\ key \in N THEN [C |-> C, N |-> N, ret |-> FALSE, built |-> 0]
    ELSE IF mesh_is_none(C, cx, cz)
         THEN [C |-> C, N |-> N \ {key}, ret |-> FALSE, built |-> 1]
         ELSE [C |-> [C EXCEPT ![key].dirty = FALSE], N |-> N \cup {key},
               ret |-> TRUE, built |-> 1]

(* ----------------------------------------------------------------------- *)
(* Streaming (World._spiral_coords, World.update, preload_chunks_around)   *)
(* ----------------------------------------------------------------------- *)
\* Ring r of World._spiral_coords: the two rows, then the two columns.
spiral_ring(ccx, ccz, r) ==
    [j \in 1..(2 * (2 * r + 1)) |->
        <<ccx - r + ((j - 1) \div 2), IF (j - 1) % 2 = 0 THEN ccz - r ELSE ccz + r>>]
    \o
    [j \in 1..(2 * (2 * r - 1)) |->
        <<IF (j - 1) % 2 = 0 THEN ccx - r ELSE ccx + r, ccz - r + 1 + ((j - 1) \div 2)>>]

RECURSIVE spiral_from(_, _, _, _)
spiral_from(ccx, ccz, r, radius) ==
    IF r > radius THEN <<>>
    ELSE spiral_ring(ccx, ccz, r) \o spiral_from(ccx, ccz, r + 1, radius)

\* World._spiral_coords
spiral_coords(ccx, ccz, radius) == <<<<ccx, ccz>>>> \o spiral_from(ccx, ccz, 1, radius)

SeqRange(q) == {q[i] : i \in 1..Len(q)}

\* The "seen" filter of update and preload: first occurrences, in order.
RECURSIVE drop_seen(_, _, _)
drop_seen(q, i, acc) ==
    IF i > Len(q) THEN acc
    ELSE IF q[i] \in SeqRange(acc) THEN drop_seen(q, i + 1, acc)
    ELSE drop_seen(q, i + 1, Append(acc, q[i]))

desired_list(ccx, ccz) == drop_seen(spiral_coords(ccx, ccz, RENDER_DISTANCE), 1, <<>>)

\* The creation loop of update: [C, created], created the keys of the new chunks.
RECURSIVE create_loop(_, _, _, _, _, _)
create_loop(desired, i, C, creates_left, created, files) ==
    IF i > Len(desired) THEN [C |-> C, created |-> created]
    ELSE IF desired[i] \in DOMAIN C
         THEN create_loop(desired, i + 1, C, creates_left, created, files)
    ELSE IF creates_left <= 0 THEN [C |-> C, created |-> created]
    ELSE create_loop(desired, i + 1,
                     ensure_chunk(C, desired[i][1], desired[i][2], files),
                     creates_left - 1, created \cup {desired[i]}, files)

\* The meshing loop of update: [C, N, builds].
RECURSIVE mesh_loop(_, _, _, _, _, _)
mesh_loop(desired, i, C, N, meshes_left, builds) ==
    IF i > Len(desired) THEN [C |-> C, N |-> N, builds |-> builds]
    ELSE IF meshes_left <= 0 THEN [C |-> C, N |-> N, builds |-> builds]
    ELSE IF desired[i] \notin DOMAIN C
         THEN mesh_loop(desired, i + 1, C, N, meshes_left, builds)
    ELSE IF C[desired[i]].dirty \/ desired[i] \notin N
         THEN LET r == build_mesh_for(C, N, desired[i][1], desired[i][2])
              IN  mesh_loop(desired, i + 1, r.C, r.N,
                            IF r.ret THEN meshes_left - 1 ELSE meshes_left,
                            builds + r.built)
    ELSE mesh_loop(desired, i + 1, C, N, meshes_left, builds)

\* update that unloads only the chunks that have a mesh node.
update_nodes_only(C, N, files, px, pz) ==
    LET cx == px \div CHUNK_SIZE_X
        cz == pz \div CHUNK_SIZE_Z
        desired == desired_list(cx, cz)
        desired_set == SeqRange(desired)
        evicted == N \ desired_set
        C0 == [k \in DOMAIN C \ evicted |-> C[k]]
        N0 == N \ evicted
        cr == create_loop(desired, 1, C0, MAX_CHUNK_CREATES_PER_FRAME, {}, files)
        ms == mesh_loop(desired, 1, cr.C, N0, MAX_CHUNK_MESHES_PER_FRAME, 0)
    IN  [C |-> ms.C, N |-> ms.N, center |-> <<cx, cz>>, evicted |-> evicted,
         created |-> cr.created, builds |-> ms.builds]

\* World.update for a player whose floored position is (px, pz):
\* [C, N, center, evicted, created, builds].
update(C, N, files, px, pz) ==
    LET cx == px \div CHUNK_SIZE_X
        cz == pz \div CHUNK_SIZE_Z
        desired == desired_list(cx, cz)
        desired_set == SeqRange(desired)
        evicted == DOMAIN C \ desired_set
        C0 == [k \in DOMAIN C \ evicted |-> C[k]]
        N0 == N \ evicted
        cr == create_loop(desired, 1, C0, MAX_CHUNK_CREATES_PER_FRAME, {}, files)
        ms == mesh_loop(desired, 1, cr.C, N0, MAX_CHUNK_MESHES_PER_FRAME, 0)
    IN  [C |-> ms.C, N |-> ms.N, center |-> <<cx, cz>>, evicted |-> evicted,
         created |-> cr.created, builds |-> ms.builds]

\* The two loops of preload_chunks_around: no budget.
RECURSIVE preload_create(_, _, _, _, _)
preload_create(desired, i, C, created, files) ==
    IF i > Len(desired) THEN [C |-> C, created |-> created]
    ELSE IF desired[i] \in DOMAIN C THEN preload_create(desired, i + 1, C, created, files)
    ELSE preload_create(desired, i + 1,
                        ensure_chunk(C, desired[i][1], desired[i][2], files),
                        created \cup {desired[i]}, files)

RECURSIVE preload_mesh(_, _, _, _, _)
preload_mesh(desired, i, C, N, builds) ==
    IF i > Len(desired) THEN [C |-> C, N |-> N, builds |-> builds]
    ELSE LET r == build_mesh_for(C, N, desired[i][1], desired[i][2])
         IN  IF r.ret THEN preload_mesh(desired, i + 1, r.C, r.N, builds + r.built)
             ELSE preload_mesh(desired, i + 1, r.C, r.N, builds + r.built)

\* World.preload_chunks_around
preload_chunks_around(C, N, files, px, pz) ==
    LET cx == px \div CHUNK_SIZE_X
        cz == pz \div CHUNK_SIZE_Z
        desired == desired_list(cx, cz)
        cr == preload_create(desired, 1, C, {}, files)
        ms == preload_mesh(desired, 1, cr.C, N, 0)
    IN  [C |-> ms.C, N |-> ms.N, center |-> <<cx, cz>>, evicted |-> {},
         created |-> cr.created, builds |-> ms.builds]

(* ----------------------------------------------------------------------- *)
(* Block modification (World.remove_block, World.place_block)              *)
(* ----------------------------------------------------------------------- *)
mark_dirty(C, key) == IF key \in DOMAIN C THEN [C EXCEPT ![key].dirty = TRUE] ELSE C

\* _mark_neighbors_dirty with the z tests chained to the x tests by elif.
mark_neighbors_dirty_chained(C, wx, wy, wz, cx, cz) ==
    LET lx == wx - cx * CHUNK_SIZE_X
        lz == wz - cz * CHUNK_SIZE_Z
    IN  IF lx = 0 THEN mark_dirty(C, <<cx - 1, cz>>)
        ELSE IF lx = CHUNK_SIZE_X - 1 THEN mark_dirty(C, <<cx + 1, cz>>)
        ELSE IF lz = 0 THEN mark_dirty(C, <<cx, cz - 1>>)
        ELSE IF lz = CHUNK_SIZE_Z - 1 THEN mark_dirty(C, <<cx, cz + 1>>)
        ELSE C

\* World._mark_neighbors_dirty
mark_neighbors_dirty(C, wx, wy, wz, cx, cz) ==
    LET lx == wx - cx * CHUNK_SIZE_X
        lz == wz - cz * CHUNK_SIZE_Z
        C1 == IF lx = 0 THEN mark_dirty(C, <<cx - 1, cz>>)
              ELSE IF lx = CHUNK_SIZE_X - 1 THEN mark_dirty(C, <<cx + 1, cz>>)
              ELSE C
    IN  IF lz = 0 THEN mark_dirty(C1, <<cx, cz - 1>>)
        ELSE IF lz = CHUNK_SIZE_Z - 1 THEN mark_dirty(C1, <<cx, cz + 1>>)
        ELSE C1

\* remove_block without the test for a cell that is already air.
remove_block_unchecked(C, wx, wy, wz) ==
    IF wy <= 0 \/ wy >= CHUNK_SIZE_Y THEN [C |-> C, ok |-> FALSE]
    ELSE LET cx == chunk_coord(wx, CHUNK_SIZE_X)
             cz == chunk_coord(wz, CHUNK_SIZE_Z)
             lx == wx - cx * CHUNK_SIZE_X
             lz == wz - cz * CHUNK_SIZE_Z
         IN  IF <<cx, cz>> \notin DOMAIN C THEN [C |-> C, ok |-> FALSE]
             ELSE [C |-> mark_neighbors_dirty(
                             [C EXCEPT ![<<cx, cz>>] =
                                 set_block_local(@, lx, wy, lz, BLOCK_AIR)],
                             wx, wy, wz, cx, cz),
                   ok |-> TRUE]

\* World.remove_block: [C, ok]
remove_block(C, wx, wy, wz) ==
    IF wy <= 0 \/ wy >= CHUNK_SIZE_Y THEN [C |-> C, ok |-> FALSE]
    ELSE LET cx == chunk_coord(wx, CHUNK_SIZE_X)
             cz == chunk_coord(wz, CHUNK_SIZE_Z)
             lx == wx - cx * CHUNK_SIZE_X
             lz == wz - cz * CHUNK_SIZE_Z
         IN  IF <<cx, cz>> \notin DOMAIN C THEN [C |-> C, ok |-> FALSE]
             ELSE IF get_block_local(C[<<cx, cz>>], lx, wy, lz) = BLOCK_AIR
                  THEN [C |-> C, ok |-> FALSE]
             ELSE [C |-> mark_neighbors_dirty(
                             [C EXCEPT ![<<cx, cz>>] =
                                 set_block_local(@, lx, wy, lz, BLOCK_AIR)],
                             wx, wy, wz, cx, cz),
                   ok |-> TRUE]

\* place_block that refuses a chunk that is not loaded, as remove_block does.
place_block_loaded_only(C, files, wx, wy, wz, block_type) ==
    IF wy <= 0 \/ wy >= CHUNK_SIZE_Y THEN [C |-> C, ok |-> FALSE]
    ELSE LET cx == chunk_coord(wx, CHUNK_SIZE_X)
             cz == chunk_coord(wz, CHUNK_SIZE_Z)
             lx == wx - cx * CHUNK_SIZE_X
             lz == wz - cz * CHUNK_SIZE_Z
         IN  IF <<cx, cz>> \notin DOMAIN C THEN [C |-> C, ok |-> FALSE]
             ELSE IF get_block_local(C[<<cx, cz>>], lx, wy, lz) # BLOCK_AIR
                  THEN [C |-> C, ok |-> FALSE]
             ELSE [C |-> mark_neighbors_dirty(
                             [C EXCEPT ![<<cx, cz>>] =
                                 set_block_local(@, lx, wy, lz, block_type)],
                             wx, wy, wz, cx, cz),
                   ok |-> TRUE]

\* World.place_block: [C, ok]
place_block(C, files, wx, wy, wz, block_type) ==
    IF wy <= 0 \/ wy >= CHUNK_SIZE_Y THEN [C |-> C, ok |-> FALSE]
    ELSE LET cx == chunk_coord(wx, CHUNK_SIZE_X)
             cz == chunk_coord(wz, CHUNK_SIZE_Z)
             lx == wx - cx * CHUNK_SIZE_X
             lz == wz - cz * CHUNK_SIZE_Z
             C1 == ensure_chunk(C, cx, cz, files)
         IN  IF get_block_local(C1[<<cx, cz>>], lx, wy, lz) # BLOCK_AIR
             THEN [C |-> C1, ok |-> FALSE]
             ELSE [C |-> mark_neighbors_dirty(
                             [C1 EXCEPT ![<<cx, cz>>] =
                                 set_block_local(@, lx, wy, lz, block_type)],
                             wx, wy, wz, cx, cz),
                   ok |-> TRUE]

(* ----------------------------------------------------------------------- *)
(* Inputs                                                                  *)
(* ----------------------------------------------------------------------- *)
\* Floored player positions (x, z): one in chunk (0, 0), one RENDER_DISTANCE
\* chunks to the west of it, so that the chunks east of the origin are evicted
\* and re-created as the player moves between the two.
PlayerCells == {<<1, 1>>, <<1 - RENDER_DISTANCE * CHUNK_SIZE_X, 1>>}

\* World x of local x = 0 of the chunk (RENDER_DISTANCE, 0), the edited chunk.
EditX0 == RENDER_DISTANCE * CHUNK_SIZE_X

\* Written coordinates (wx, wy, wz), around the chunk corner at (EditX0, 0):
\*   CornerCell   local x = 0, z = 0 of the edited chunk, a terrain block;
\*   OppositeCell local x = SX-1, z = SZ-1 of the chunk diagonally across that
\*                corner, a terrain block; its east and south neighbours are
\*                the north and west neighbours of the edited chunk;
\*   InnerCell    an interior cell of the edited chunk, air in the terrain;
\*   FloorCell, SkyCell  the bedrock row and the first row above the world.
CornerCell   == <<EditX0, 1, 0>>
OppositeCell == <<EditX0 - 1, 1, -1>>
InnerCell    == <<EditX0 + 1, CHUNK_SIZE_Y - 1, 1>>
FloorCell    == <<EditX0, 0, 0>>
SkyCell      == <<EditX0, CHUNK_SIZE_Y, 0>>

PlaceCells  == {CornerCell, InnerCell, FloorCell, SkyCell}
RemoveCells == {CornerCell, OppositeCell, FloorCell, SkyCell}

PlaceTypes == {BLOCK_COBBLESTONE}

EmptyMap == [k \in {} |-> k]

NoCall == [op |-> "init", ok |-> FALSE, w |-> <<0, 0, 0>>, center |-> <<0, 0>>,
           evicted |-> {}, created |-> {}, builds |-> 0]

\* No _sweep_axis call.
NoSweep == [pc |-> "idle"]

\* No mob system and no player: the world alone.
NoMobSystem == [pc |-> "idle"]
NoPlayer == [pc |-> "idle"]

(* ----------------------------------------------------------------------- *)
(* Initial state: World.__init__ with an empty chunks directory            *)
(* ----------------------------------------------------------------------- *)
Init ==
    /\ chunks = EmptyMap
    /\ chunk_nodes = {}
    /\ preload_complete = FALSE
    /\ chunk_files = EmptyMap
    /\ last = NoCall
    /\ written = EmptyMap
    /\ sweep = NoSweep
    /\ mob_system = NoMobSystem
    /\ player = NoPlayer

(* ----------------------------------------------------------------------- *)
(* Actions                                                                 *)
(* ----------------------------------------------------------------------- *)
\* App world entry: preload_chunks_around on the freshly built World.
Preload(p) ==
    /\ ~preload_complete
    /\ DOMAIN chunks = {}
    /\ \E r \in {preload_chunks_around(chunks, chunk_nodes, chunk_files, p[1], p[2])} :
           /\ chunks' = r.C
           /\ chunk_nodes' = r.N
           /\ last' = [NoCall EXCEPT !.op = "preload", !.ok = TRUE, !.center = r.center,
                                     !.created = r.created, !.builds = r.builds]
    /\ preload_complete' = TRUE
    /\ UNCHANGED <<chunk_files, written, sweep, mob_system, player>>

\* App._update: World.update(player.position)
Update(p) ==
    /\ \E r \in {update(chunks, chunk_nodes, chunk_files, p[1], p[2])} :
           /\ chunks' = r.C
           /\ chunk_nodes' = r.N
           /\ last' = [NoCall EXCEPT !.op = "update", !.ok = TRUE, !.center = r.center,
                                     !.evicted = r.evicted,
                                     !.created = r.created, !.builds = r.builds]
    /\ UNCHANGED <<preload_complete, chunk_files, written, sweep, mob_system, player>>

\* App._place_block: World.place_block, then save_block_edit when it succeeded.
PlaceBlock(wx, wy, wz, block_type) ==
    /\ \E r \in {place_block(chunks, chunk_files, wx, wy, wz, block_type)} :
           /\ chunks' = r.C
           /\ chunk_files' = IF r.ok THEN save_block_edit(chunk_files, r.C, wx, wy, wz)
                             ELSE chunk_files
           /\ written' = IF r.ok
                         THEN [k \in DOMAIN written \cup {<<wx, wy, wz>>} |->
                                  IF k = <<wx, wy, wz>> THEN block_type ELSE written[k]]
                         ELSE written
           /\ last' = [NoCall EXCEPT !.op = "place_block", !.ok = r.ok,
                                     !.w = <<wx, wy, wz>>,
                                     !.created = DOMAIN r.C \ DOMAIN chunks]
    /\ UNCHANGED <<chunk_nodes, preload_complete, sweep, mob_system, player>>

\* App._mine_block: World.remove_block, then save_block_edit when it succeeded.
RemoveBlock(wx, wy, wz) ==
    /\ \E r \in {remove_block(chunks, wx, wy, wz)} :
           /\ chunks' = r.C
           /\ chunk_files' = IF r.ok THEN save_block_edit(chunk_files, r.C, wx, wy, wz)
                             ELSE chunk_files
           /\ written' = IF r.ok
                         THEN [k \in DOMAIN written \cup {<<wx, wy, wz>>} |->
                                  IF k = <<wx, wy, wz>> THEN BLOCK_AIR ELSE written[k]]
                         ELSE written
           /\ last' = [NoCall EXCEPT !.op = "remove_block", !.ok = r.ok,
                                     !.w = <<wx, wy, wz>>]
    /\ UNCHANGED <<chunk_nodes, preload_complete, sweep, mob_system, player>>

Next ==
    \/ \E p \in PlayerCells : Preload(p)
    \/ \E p \in PlayerCells : Update(p)
    \/ \E w \in PlaceCells, t \in PlaceTypes : PlaceBlock(w[1], w[2], w[3], t)
    \/ \E w \in RemoveCells : RemoveBlock(w[1], w[2], w[3])

Spec == Init /\ [][Next]_vars

(* ----------------------------------------------------------------------- *)
(* Properties of the block writes and of streaming                         *)
(* ----------------------------------------------------------------------- *)
\* The chunk that contains a world coordinate, found by search instead of by
\* division: the c with c * size <= w < (c + 1) * size.
ChunkSpan == 2 * RENDER_DISTANCE + 2
chunk_of(w, size) ==
    CHOOSE c \in (0 - ChunkSpan)..ChunkSpan : c * size <= w /\ w < (c + 1) * size
key_of(w) == <<chunk_of(w[1], CHUNK_SIZE_X), chunk_of(w[3], CHUNK_SIZE_Z)>>
local_x(w) == w[1] - key_of(w)[1] * CHUNK_SIZE_X
local_z(w) == w[3] - key_of(w)[2] * CHUNK_SIZE_Z
cell_of(w) == (w[2] * CHUNK_SIZE_Z + local_z(w)) * CHUNK_SIZE_X + local_x(w) + 1

IsWrite(l) == l.op \in {"place_block", "remove_block"}
EditKey == key_of(CornerCell)
WestKey == <<EditKey[1] - 1, EditKey[2]>>
WestFocus == <<0 - RENDER_DISTANCE, 0>>

\* C1: after a successful place_block or remove_block at local x = 0 the chunk
\* (cx-1, cz), when loaded, is dirty; at local x = SX-1 the chunk (cx+1, cz);
\* at local z = 0 the chunk (cx, cz-1); at local z = SZ-1 the chunk (cx, cz+1);
\* a successful write at an interior cell changes the dirty flag of no chunk
\* other than (cx, cz).
C1_BoundaryDirtying ==
    [][ (IsWrite(last') /\ last'.ok) =>
          LET w  == last'.w
              k  == key_of(w)
              lx == local_x(w)
              lz == local_z(w)
              nb(dx, dz) == <<k[1] + dx, k[2] + dz>>
              DirtyIfLoaded(n) == n \in DOMAIN chunks' => chunks'[n].dirty
          IN  /\ lx = 0 => DirtyIfLoaded(nb(-1, 0))
              /\ lx = CHUNK_SIZE_X - 1 => DirtyIfLoaded(nb(1, 0))
              /\ lz = 0 => DirtyIfLoaded(nb(0, -1))
              /\ lz = CHUNK_SIZE_Z - 1 => DirtyIfLoaded(nb(0, 1))
              /\ (/\ 0 < lx /\ lx < CHUNK_SIZE_X - 1
                  /\ 0 < lz /\ lz < CHUNK_SIZE_Z - 1)
                 => \A n \in (DOMAIN chunks \cup DOMAIN chunks') \ {k} :
                        /\ n \in DOMAIN chunks
                        /\ n \in DOMAIN chunks'
                        /\ chunks'[n].dirty = chunks[n].dirty
      ]_vars

\* A block was removed at the corner cell while the meshed chunks on both sides
\* of that corner were loaded: both are dirty again.
C1_Witness ==
    /\ last.op = "remove_block" /\ last.ok /\ last.w = CornerCell
    /\ WestKey \in chunk_nodes /\ chunks[WestKey].dirty
    /\ <<EditKey[1], EditKey[2] - 1>> \in chunk_nodes
    /\ chunks[<<EditKey[1], EditKey[2] - 1>>].dirty

\* C2: a cell written by a successful place_block or remove_block, each followed
\* by save_block_edit, reads back through get_block as the last value written
\* whenever its chunk is loaded, also after the chunk was evicted and created
\* again.
C2_EditRoundTrip ==
    \A w \in DOMAIN written :
        key_of(w) \in DOMAIN chunks => get_block(w[1], w[2], w[3]) = written[w]

\* The edited chunk has just been created again by update, from its file, and
\* the corner cell reads as written, not as the terrain generator fills it.
C2_Witness ==
    /\ last.op = "update" /\ EditKey \in last.created
    /\ CornerCell \in DOMAIN written
    /\ get_block(CornerCell[1], CornerCell[2], CornerCell[3]) = written[CornerCell]
    /\ written[CornerCell] # block_id_at(CornerCell[1], CornerCell[2], CornerCell[3])

\* C3 as stated: a place_block or remove_block whose chunk is not loaded returns
\* False and changes neither the set of loaded chunks nor any grid.
C3_UnloadedWriteRejected ==
    [][ (IsWrite(last') /\ key_of(last'.w) \notin DOMAIN chunks) =>
          (~last'.ok /\ chunks' = chunks)
      ]_vars

\* C3 amended: a remove_block whose chunk is not loaded, and a place_block at a
\* height outside 1..SY-1, return False and change nothing; a place_block at a
\* height in 1..SY-1 whose chunk is not loaded creates exactly that chunk, from
\* the terrain generator and the chunk's file, leaves every other chunk as it
\* was, and returns False exactly when the cell of the created chunk is not air.
C3_UnloadedWrite ==
    [][ (IsWrite(last') /\ key_of(last'.w) \notin DOMAIN chunks) =>
          LET w == last'.w
              k == key_of(w)
          IN  IF last'.op = "remove_block" \/ w[2] <= 0 \/ w[2] >= CHUNK_SIZE_Y
              THEN ~last'.ok /\ chunks' = chunks
              ELSE /\ DOMAIN chunks' = DOMAIN chunks \cup {k}
                   /\ \A n \in DOMAIN chunks :
                          chunks'[n].blocks = chunks[n].blocks
                   /\ LET fresh == IF k \in DOMAIN chunk_files THEN chunk_files[k]
                                   ELSE populate_chunk_blocks(Chunk_init,
                                                              k[1], k[2]).blocks
                      IN  /\ last'.ok <=> fresh[cell_of(w)] = BLOCK_AIR
                          /\ \A i \in 1..GridLen :
                                 i # cell_of(w) => chunks'[k].blocks[i] = fresh[i]
      ]_vars

\* place_block on the unloaded edited chunk, with the streamed chunks around the
\* western focus all loaded: the call created the chunk and placed the block.
C3_Witness ==
    /\ last.op = "place_block" /\ last.ok /\ last.w = InnerCell
    /\ last.created = {EditKey}
    /\ WestKey \in DOMAIN chunks

\* C4: with the target chunk loaded, remove_block on an air cell, place_block on
\* an occupied cell, and either call at y <= 0 or y >= SY return False and change
\* no chunk; no block write modifies the row y = 0 of any chunk.
C4_RejectedWrites ==
    [][ IsWrite(last') =>
          LET w == last'.w
              k == key_of(w)
          IN  /\ (/\ k \in DOMAIN chunks
                  /\ \/ w[2] <= 0
                     \/ w[2] >= CHUNK_SIZE_Y
                     \/ last'.op = "remove_block"
                        /\ chunks[k].blocks[cell_of(w)] = BLOCK_AIR
                     \/ last'.op = "place_block"
                        /\ chunks[k].blocks[cell_of(w)] # BLOCK_AIR)
                 => (~last'.ok /\ chunks' = chunks)
              /\ \A n \in DOMAIN chunks :
                     /\ n \in DOMAIN chunks'
                     /\ \A i \in 1..(CHUNK_SIZE_X * CHUNK_SIZE_Z) :
                            chunks'[n].blocks[i] = chunks[n].blocks[i]
      ]_vars

\* remove_block was rejected on the corner cell of the loaded edited chunk, the
\* cell being air after an earlier removal.
C4_Witness ==
    /\ last.op = "remove_block" /\ ~last.ok /\ last.w = CornerCell
    /\ EditKey \in DOMAIN chunks
    /\ CornerCell \in DOMAIN written /\ written[CornerCell] = BLOCK_AIR
    /\ get_block(CornerCell[1], CornerCell[2], CornerCell[3]) = BLOCK_AIR

\* Coordinates at which is_solid is queried: the written columns, a column of
\* chunk (0, 0), a column with negative coordinates and a column of a chunk
\* that is never loaded, each from below the world to above it.
ProbeColumns ==
    {<<CornerCell[1], CornerCell[3]>>, <<OppositeCell[1], OppositeCell[3]>>,
     <<InnerCell[1], InnerCell[3]>>, <<1, 1>>,
     <<0 - RENDER_DISTANCE * CHUNK_SIZE_X - 1, -1>>,
     <<(RENDER_DISTANCE + 1) * CHUNK_SIZE_X, 0>>}
ProbeCoords == {<<c[1], y, c[2]>> : c \in ProbeColumns, y \in (-1)..CHUNK_SIZE_Y}

Abs(n) == IF n < 0 THEN 0 - n ELSE n
Chebyshev(a, b) == Max2(Abs(a[1] - b[1]), Abs(a[2] - b[2]))

\* C8: immediately after update every loaded chunk and every mesh node is within
\* Chebyshev distance RENDER_DISTANCE of the focus chunk, chunks that
\* place_block created outside the radius included, and every chunk with a
\* mesh node is loaded.
C8_LoadedWithinRadius ==
    last.op = "update" =>
        /\ \A k \in DOMAIN chunks \cup chunk_nodes :
               Chebyshev(k, last.center) <= RENDER_DISTANCE
        /\ chunk_nodes \subseteq DOMAIN chunks

\* With every chunk around the western focus loaded, the only chunk update
\* evicted is the edited chunk, which place_block had created outside the radius.
C8_Witness ==
    /\ last.op = "update" /\ last.center = WestFocus
    /\ last.evicted = {EditKey} /\ last.created = {}
    /\ Cardinality(DOMAIN chunks) = (2 * RENDER_DISTANCE + 1) * (2 * RENDER_DISTANCE + 1)

(* ----------------------------------------------------------------------- *)
(* World.__init__ over a chunks directory that already holds the file of   *)
(* one chunk, with a block list of SX*SY*SZ air ids, or with a list one    *)
(* id longer                                                               *)
(* ----------------------------------------------------------------------- *)
SavedKey == <<0, -1>>
SavedBlocks == [i \in 1..GridLen |-> BLOCK_AIR]
MalformedBlocks == [i \in 1..(GridLen + 1) |-> BLOCK_AIR]

InitSaved ==
    /\ chunks = EmptyMap
    /\ chunk_nodes = {}
    /\ preload_complete = FALSE
    /\ \E blocks \in {SavedBlocks, MalformedBlocks} :
           chunk_files = [k \in {SavedKey} |-> blocks]
    /\ last = NoCall
    /\ written = EmptyMap
    /\ sweep = NoSweep
    /\ mob_system = NoMobSystem
    /\ player = NoPlayer

SpecSaved == InitSaved /\ [][Next]_vars

\* C7: every update creates at most MAX_CHUNK_CREATES_PER_FRAME chunks and
\* performs at most MAX_CHUNK_MESHES_PER_FRAME mesh builds, whatever the loaded
\* chunks contain.
C7_UpdateBudgets ==
    last.op = "update" =>
        /\ Cardinality(last.created) <= MAX_CHUNK_CREATES_PER_FRAME
        /\ last.builds <= MAX_CHUNK_MESHES_PER_FRAME

\* The six face-neighbour coordinates of a block.
FaceNeighbours(wx, y, wz) ==
    {<<wx, y + 1, wz>>, <<wx, y - 1, wz>>, <<wx + 1, y, wz>>,
     <<wx - 1, y, wz>>, <<wx, y, wz + 1>>, <<wx, y, wz - 1>>}

\* C9: for every solid block of a loaded chunk, at any height 0 <= y < SY,
\* build_mesh emits as many quads as the block has face-neighbour coordinates
\* at which is_solid is false: one quad per such neighbour and no other.
C9_OneQuadPerOpenFace ==
    \A k \in DOMAIN chunks :
        \A i \in 1..GridLen :
            is_block_solid(chunks[k].blocks[i]) =>
                Cardinality(block_quads(chunks, k[1], k[2],
                                        cell_lx(i), cell_y(i), cell_lz(i)))
                = Cardinality({n \in FaceNeighbours(k[1] * CHUNK_SIZE_X + cell_lx(i),
                                                    cell_y(i),
                                                    k[2] * CHUNK_SIZE_Z + cell_lz(i)) :
                                  ~is_solid(n[1], n[2], n[3])})

(* ----------------------------------------------------------------------- *)
(* Collision sweep (src/voxel/player.py, src/voxel/util.py)                *)
(* Lengths are integers, in thousandths of a block.                        *)
(* ----------------------------------------------------------------------- *)
BLOCK_SIZE == 1000
EPSILON == 1
PLAYER_WIDTH == 600
PLAYER_HEIGHT == 1800

\* math.floor of a length, in blocks
floor(a) == a \div BLOCK_SIZE

SetMin(S) == CHOOSE m \in S : \A n \in S : m <= n
SetMax(S) == CHOOSE m \in S : \A n \in S : m >= n

\* util.AABB
AABB(min_x, min_y, min_z, max_x, max_y, max_z) ==
    [min_x |-> min_x, min_y |-> min_y, min_z |-> min_z,
     max_x |-> max_x, max_y |-> max_y, max_z |-> max_z]

\* AABB.intersects
intersects(a, other) ==
    ~ (\/ a.max_x <= other.min_x
       \/ a.min_x >= other.max_x
       \/ a.max_y <= other.min_y
       \/ a.min_y >= other.max_y
       \/ a.max_z <= other.min_z
       \/ a.min_z >= other.max_z)

\* AABB.moved
moved(a, dx, dy, dz) ==
    AABB(a.min_x + dx, a.min_y + dy, a.min_z + dz,
         a.max_x + dx, a.max_y + dy, a.max_z + dz)

\* util.block_aabb
block_aabb(bx, by, bz) ==
    AABB(bx * BLOCK_SIZE, by * BLOCK_SIZE, bz * BLOCK_SIZE,
         (bx + 1) * BLOCK_SIZE, (by + 1) * BLOCK_SIZE, (bz + 1) * BLOCK_SIZE)

\* The block range of _sweep_axis on one axis: range(sweep_min, sweep_max + 1),
\* widened by delta on the axis of the sweep.
sweep_range(lo, hi, delta, along) ==
    IF ~along THEN floor(lo)..(floor(hi) + 1)
    ELSE IF delta > 0 THEN floor(lo)..(floor(hi + delta) + 1)
    ELSE floor(lo + delta)..(floor(hi) + 1)

\* The test _sweep_axis makes on one solid block: overlap on the two other
\* axes, then the face the movement would cross.
sweep_blocked(aabb, blk, delta, axis) ==
    CASE axis = "x" ->
           /\ ~(aabb.max_y <= blk.min_y \/ aabb.min_y >= blk.max_y)
           /\ ~(aabb.max_z <= blk.min_z \/ aabb.min_z >= blk.max_z)
           /\ IF delta > 0
              THEN aabb.max_x <= blk.min_x /\ aabb.max_x + delta > blk.min_x
              ELSE aabb.min_x >= blk.max_x /\ aabb.min_x + delta < blk.max_x
      [] axis = "y" ->
           /\ ~(aabb.max_x <= blk.min_x \/ aabb.min_x >= blk.max_x)
           /\ ~(aabb.max_z <= blk.min_z \/ aabb.min_z >= blk.max_z)
           /\ IF delta > 0
              THEN aabb.max_y <= blk.min_y /\ aabb.max_y + delta > blk.min_y
              ELSE aabb.min_y >= blk.max_y /\ aabb.min_y + delta < blk.max_y
      [] axis = "z" ->
           /\ ~(aabb.max_x <= blk.min_x \/ aabb.min_x >= blk.max_x)
           /\ ~(aabb.max_y <= blk.min_y \/ aabb.min_y >= blk.max_y)
           /\ IF delta > 0
              THEN aabb.max_z <= blk.min_z /\ aabb.max_z + delta > blk.min_z
              ELSE aabb.min_z >= blk.max_z /\ aabb.min_z + delta < blk.max_z

\* The clamp without the EPSILON margin
sweep_limit_snug(aabb, blk, delta, axis) ==
    CASE axis = "x" -> IF delta > 0 THEN blk.min_x - aabb.max_x
                       ELSE blk.max_x - aabb.min_x
      [] axis = "y" -> IF delta > 0 THEN blk.min_y - aabb.max_y
                       ELSE blk.max_y - aabb.min_y
      [] axis = "z" -> IF delta > 0 THEN blk.min_z - aabb.max_z
                       ELSE blk.max_z - aabb.min_z

\* The clamp a blocking block puts on the movement.
sweep_limit(aabb, blk, delta, axis) ==
    CASE axis = "x" -> IF delta > 0 THEN blk.min_x - aabb.max_x - EPSILON
                       ELSE blk.max_x - aabb.min_x + EPSILON
      [] axis = "y" -> IF delta > 0 THEN blk.min_y - aabb.max_y - EPSILON
                       ELSE blk.max_y - aabb.min_y + EPSILON
      [] axis = "z" -> IF delta > 0 THEN blk.min_z - aabb.max_z - EPSILON
                       ELSE blk.max_z - aabb.min_z + EPSILON

\* Player._sweep_axis over the world C: [allowed, hit]
sweep_axis(C, aabb, delta, axis) ==
    IF delta = 0 THEN [allowed |-> 0, hit |-> FALSE]
    ELSE LET blocking ==
                 {b \in sweep_range(aabb.min_x, aabb.max_x, delta, axis = "x")
                        \X sweep_range(aabb.min_y, aabb.max_y, delta, axis = "y")
                        \X sweep_range(aabb.min_z, aabb.max_z, delta, axis = "z") :
                      /\ is_solid_in(C, b[1], b[2], b[3])
                      /\ sweep_blocked(aabb, block_aabb(b[1], b[2], b[3]), delta, axis)}
             limits == {sweep_limit(aabb, block_aabb(b[1], b[2], b[3]), delta, axis) :
                            b \in blocking}
         IN  [allowed |-> IF delta > 0 THEN SetMin(limits \cup {delta})
                          ELSE SetMax(limits \cup {delta}),
              hit |-> blocking # {}]

\* Mob._sweep_axis over the world C: [allowed, hit].  The loops of an axis run
\* over the cells of its swept volume; each solid cell clamps the running
\* pair [allowed, hit], which starts as (delta, False), so that the loops
\* leave the least (the greatest, moving backwards) of the clamped values.
Mob_sweep_axis(C, aabb, delta, axis) ==
    LET along(lo, hi) == IF delta > 0 THEN floor(lo)..(floor(hi + delta) + 1)
                         ELSE floor(lo + delta)..(floor(hi) + 1)
        across(lo, hi) == floor(lo)..(floor(hi) + 1)
        cells == (IF axis = "x" THEN along(aabb.min_x, aabb.max_x)
                  ELSE across(aabb.min_x, aabb.max_x))
                 \X (IF axis = "y" THEN along(aabb.min_y, aabb.max_y)
                     ELSE across(aabb.min_y, aabb.max_y))
                 \X (IF axis = "z" THEN along(aabb.min_z, aabb.max_z)
                     ELSE across(aabb.min_z, aabb.max_z))
        clamped(acc, blk) ==
            CASE axis = "x" ->
                   IF aabb.max_y <= blk.min_y \/ aabb.min_y >= blk.max_y THEN acc
                   ELSE IF aabb.max_z <= blk.min_z \/ aabb.min_z >= blk.max_z THEN acc
                   ELSE IF delta > 0
                   THEN IF aabb.max_x <= blk.min_x /\ aabb.max_x + delta > blk.min_x
                        THEN [allowed |-> Min2(acc.allowed,
                                               blk.min_x - aabb.max_x - EPSILON),
                              hit |-> TRUE]
                        ELSE acc
                   ELSE IF aabb.min_x >= blk.max_x /\ aabb.min_x + delta < blk.max_x
                        THEN [allowed |-> Max2(acc.allowed,
                                               blk.max_x - aabb.min_x + EPSILON),
                              hit |-> TRUE]
                        ELSE acc
              [] axis = "y" ->
                   IF aabb.max_x <= blk.min_x \/ aabb.min_x >= blk.max_x THEN acc
                   ELSE IF aabb.max_z <= blk.min_z \/ aabb.min_z >= blk.max_z THEN acc
                   ELSE IF delta > 0
                   THEN IF aabb.max_y <= blk.min_y /\ aabb.max_y + delta > blk.min_y
                        THEN [allowed |-> Min2(acc.allowed,
                                               blk.min_y - aabb.max_y - EPSILON),
                              hit |-> TRUE]
                        ELSE acc
                   ELSE IF aabb.min_y >= blk.max_y /\ aabb.min_y + delta < blk.max_y
                        THEN [allowed |-> Max2(acc.allowed,
                                               blk.max_y - aabb.min_y + EPSILON),
                              hit |-> TRUE]
                        ELSE acc
              [] axis = "z" ->
                   IF aabb.max_x <= blk.min_x \/ aabb.min_x >= blk.max_x THEN acc
                   ELSE IF aabb.max_y <= blk.min_y \/ aabb.min_y >= blk.max_y THEN acc
                   ELSE IF delta > 0
                   THEN IF aabb.max_z <= blk.min_z /\ aabb.max_z + delta > blk.min_z
                        THEN [allowed |-> Min2(acc.allowed,
                                               blk.min_z - aabb.max_z - EPSILON),
                              hit |-> TRUE]
                        ELSE acc
                   ELSE IF aabb.min_z >= blk.max_z /\ aabb.min_z + delta < blk.max_z
                        THEN [allowed |-> Max2(acc.allowed,
                                               blk.max_z - aabb.min_z + EPSILON),
                              hit |-> TRUE]
                        ELSE acc
        each == {clamped([allowed |-> delta, hit |-> FALSE],
                         block_aabb(b[1], b[2], b[3])) :
                     b \in {c \in cells : is_solid_in(C, c[1], c[2], c[3])}}
    IN  IF delta = 0 THEN [allowed |-> 0, hit |-> FALSE]
        ELSE [allowed |-> IF delta > 0 THEN SetMin({r.allowed : r \in each} \cup {delta})
                          ELSE SetMax({r.allowed : r \in each} \cup {delta}),
              hit |-> \E r \in each : r.hit]

\* DropSystem._sweep_axis over the world C: [allowed, hit].  lo and hi are the
\* bounds of a box on an axis; a solid cell of the swept volume hits when it
\* overlaps the box on the two other axes and the movement crosses its face.
DropSystem_sweep_axis(C, aabb, delta, axis) ==
    LET lo(box, ax) == CASE ax = "x" -> box.min_x [] ax = "y" -> box.min_y
                         [] ax = "z" -> box.min_z
        hi(box, ax) == CASE ax = "x" -> box.max_x [] ax = "y" -> box.max_y
                         [] ax = "z" -> box.max_z
        range(ax) == IF ax # axis
                     THEN floor(lo(aabb, ax))..(floor(hi(aabb, ax)) + 1)
                     ELSE IF delta > 0
                     THEN floor(lo(aabb, ax))..(floor(hi(aabb, ax) + delta) + 1)
                     ELSE floor(lo(aabb, ax) + delta)..(floor(hi(aabb, ax)) + 1)
        hits == {blk \in {block_aabb(b[1], b[2], b[3]) :
                              b \in {c \in range("x") \X range("y") \X range("z") :
                                         is_solid_in(C, c[1], c[2], c[3])}} :
                    /\ \A ax \in {"x", "y", "z"} \ {axis} :
                           ~(hi(aabb, ax) <= lo(blk, ax) \/ lo(aabb, ax) >= hi(blk, ax))
                    /\ IF delta > 0
                       THEN /\ hi(aabb, axis) <= lo(blk, axis)
                            /\ hi(aabb, axis) + delta > lo(blk, axis)
                       ELSE /\ lo(aabb, axis) >= hi(blk, axis)
                            /\ lo(aabb, axis) + delta < hi(blk, axis)}
        stops == {delta} \cup
                 {IF delta > 0 THEN lo(blk, axis) - hi(aabb, axis) - EPSILON
                  ELSE hi(blk, axis) - lo(aabb, axis) + EPSILON : blk \in hits}
    IN  IF delta = 0 THEN [allowed |-> 0, hit |-> FALSE]
        ELSE [allowed |-> CHOOSE a \in stops :
                              \A o \in stops : IF delta > 0 THEN a <= o ELSE a >= o,
              hit |-> hits # {}]

\* Some solid block of the world intersects the box.
overlaps_solid(C, aabb) ==
    \E bx \in floor(aabb.min_x)..floor(aabb.max_x),
       by \in floor(aabb.min_y)..floor(aabb.max_y),
       bz \in floor(aabb.min_z)..floor(aabb.max_z) :
        is_solid_in(C, bx, by, bz) /\ intersects(aabb, block_aabb(bx, by, bz))

\* The box after the movement _sweep_axis allowed.
moved_along(aabb, d, axis) ==
    CASE axis = "x" -> moved(aabb, d, 0, 0)
      [] axis = "y" -> moved(aabb, 0, d, 0)
      [] axis = "z" -> moved(aabb, 0, 0, d)

\* Boxes, axes and movements of the sweep: the player's box and a box one block
\* wide, in and above the one-block pit of the terrain at column (1, 0) and at
\* column (-1, 0), resting on the floor, EPSILON above it, and above the terrain;
\* movements shorter and longer than a block, and no movement.
SweepShapes == {<<PLAYER_WIDTH, PLAYER_HEIGHT>>, <<BLOCK_SIZE, BLOCK_SIZE>>}
SweepMinX == {0 - BLOCK_SIZE, BLOCK_SIZE, BLOCK_SIZE + 200,
              2 * BLOCK_SIZE - PLAYER_WIDTH - EPSILON}
SweepMinY == {2 * BLOCK_SIZE, 2 * BLOCK_SIZE + EPSILON, 3 * BLOCK_SIZE}
SweepMinZ == {0, 200}
SweepDeltas == {-2500, -300, 0, 300, 2500}
SweepAxes == {"x", "y", "z"}

\* The world of the sweep: the terrain preloaded around the player cell (1, 1).
SweepWorld == preload_chunks_around(EmptyMap, {}, EmptyMap, 1, 1)

InitSweep ==
    /\ chunks = SweepWorld.C
    /\ chunk_nodes = SweepWorld.N
    /\ preload_complete = TRUE
    /\ chunk_files = EmptyMap
    /\ last = [NoCall EXCEPT !.op = "preload", !.ok = TRUE,
                             !.center = SweepWorld.center,
                             !.created = SweepWorld.created,
                             !.builds = SweepWorld.builds]
    /\ written = EmptyMap
    /\ \E s \in SweepShapes, x \in SweepMinX, y \in SweepMinY, z \in SweepMinZ,
          d \in SweepDeltas, a \in SweepAxes :
           sweep = [pc |-> "ready",
                    aabb |-> AABB(x, y, z, x + s[1], y + s[2], z + s[1]),
                    delta |-> d, axis |-> a, allowed |-> 0, hit |-> FALSE,
                    mob |-> [pc |-> "ready", allowed |-> 0, hit |-> FALSE],
                    drop |-> [pc |-> "ready", allowed |-> 0, hit |-> FALSE]]
    /\ mob_system = NoMobSystem
    /\ player = NoPlayer

\* Player.update: one _sweep_axis call on the player's box.
SweepAxis ==
    /\ sweep.pc = "ready"
    /\ \E r \in {sweep_axis(chunks, sweep.aabb, sweep.delta, sweep.axis)} :
           sweep' = [sweep EXCEPT !.pc = "done", !.allowed = r.allowed, !.hit = r.hit]
    /\ UNCHANGED <<chunks, chunk_nodes, preload_complete, chunk_files, last, written,
                   mob_system, player>>

\* Mob._update_physics: one _sweep_axis call on a mob with this box.
MobSweepAxis ==
    /\ sweep.pc \in {"ready", "done"}
    /\ sweep.mob.pc = "ready"
    /\ \E r \in {Mob_sweep_axis(chunks, sweep.aabb, sweep.delta, sweep.axis)} :
           sweep' = [sweep EXCEPT !.mob = [pc |-> "done", allowed |-> r.allowed,
                                           hit |-> r.hit]]
    /\ UNCHANGED <<chunks, chunk_nodes, preload_complete, chunk_files, last, written,
                   mob_system, player>>

\* DropSystem._update_physics: one _sweep_axis call on an item with this box.
DropSweepAxis ==
    /\ sweep.pc \in {"ready", "done"}
    /\ sweep.drop.pc = "ready"
    /\ \E r \in {DropSystem_sweep_axis(chunks, sweep.aabb, sweep.delta, sweep.axis)} :
           sweep' = [sweep EXCEPT !.drop = [pc |-> "done", allowed |-> r.allowed,
                                            hit |-> r.hit]]
    /\ UNCHANGED <<chunks, chunk_nodes, preload_complete, chunk_files, last, written,
                   mob_system, player>>

NextSweep == SweepAxis \/ MobSweepAxis \/ DropSweepAxis

SpecSweep == InitSweep /\ [][NextSweep]_vars

C23_OneSweepRoutine ==
    (sweep.pc = "done" /\ sweep.mob.pc = "done" /\ sweep.drop.pc = "done") =>
        /\ sweep.mob.allowed = sweep.allowed /\ sweep.mob.hit = sweep.hit
        /\ sweep.drop.allowed = sweep.allowed /\ sweep.drop.hit = sweep.hit
        /\ sweep.delta = 0 => (sweep.allowed = 0 /\ ~sweep.hit)

\* The three routines have swept the same box against a block that clamps it
C23_AllSweptAndHit ==
    /\ sweep.pc = "done" /\ sweep.mob.pc = "done" /\ sweep.drop.pc = "done"
    /\ sweep.hit /\ sweep.allowed # sweep.delta

\* The three routines have swept a box that does not move
C23_AllSweptZero ==
    /\ sweep.pc = "done" /\ sweep.mob.pc = "done" /\ sweep.drop.pc = "done"
    /\ sweep.delta = 0

(* ----------------------------------------------------------------------- *)
(* Mobs: mob_system.py.  Reals are fixed-point numbers in thousandths      *)
(* (BLOCK_SIZE is 1.0): lengths in thousandths of a block, times in        *)
(* milliseconds, speeds in thousandths of a block per second.              *)
(* ----------------------------------------------------------------------- *)

GRAVITY == 26000
MOB_SHEEP == 0
MOB_ZOMBIE == 5
DIFFICULTY_PEACEFUL == 0
DIFFICULTY_NORMAL == 2
DIFFICULTY_HARD == 3

\* Division of fixed-point numbers rounds towards zero.
quot(a, b) == IF a >= 0 THEN a \div b ELSE 0 - ((0 - a) \div b)

\* The product of two fixed-point numbers.
mul(a, b) == quot(a * b, BLOCK_SIZE)

RECURSIVE sqrt_iter(_, _)
sqrt_iter(n, x) ==
    LET y == (x + n \div x) \div 2
    IN  IF y >= x THEN x ELSE sqrt_iter(n, y)

\* math.sqrt of a sum of squares of fixed-point numbers, rounded down
sqrt(n) == IF n = 0 THEN 0 ELSE sqrt_iter(n, n)

Vec3(x, y, z) == [x |-> x, y |-> y, z |-> z]

\* math.sin and math.cos of a wander direction, for the right angles
sin_deg(d) == CASE d = 0 -> 0 [] d = 90 -> BLOCK_SIZE [] d = 180 -> 0
                [] d = 270 -> 0 - BLOCK_SIZE
cos_deg(d) == CASE d = 0 -> BLOCK_SIZE [] d = 90 -> 0 [] d = 180 -> 0 - BLOCK_SIZE
                [] d = 270 -> 0

\* Mob._configure_mob
configure_mob(m) ==
    CASE m.mob_type = MOB_SHEEP ->
           [m EXCEPT !.size = Vec3(600, 800, 600), !.health = 8000]
      [] m.mob_type = MOB_ZOMBIE ->
           [m EXCEPT !.size = Vec3(600, 1950, 600), !.health = 20000,
                     !.is_hostile = TRUE, !.attack_damage = 3000,
                     !.move_speed = 2000]

\* Mob.__init__; the two random draws of the constructor are its arguments
Mob_init(mob_type, position, wander_direction, idle_timer) ==
    configure_mob(
        [mob_type |-> mob_type, position |-> position,
         velocity |-> Vec3(0, 0, 0), on_ground |-> FALSE,
         size |-> Vec3(600, 900, 600),
         wander_timer |-> 0, wander_direction |-> wander_direction,
         idle_timer |-> idle_timer, is_idle |-> TRUE,
         is_hostile |-> FALSE, attack_damage |-> 0, attack_range |-> 1500,
         detection_range |-> 16000, attack_cooldown |-> 0, move_speed |-> 1500,
         health |-> 10000, is_dead |-> FALSE, death_timer |-> 0,
         hit_cooldown |-> 0, jump_force |-> 8000, jump_cooldown |-> 0])

\* Mob.get_aabb
get_aabb(m) ==
    AABB(m.position.x - m.size.x \div 2, m.position.y, m.position.z - m.size.z \div 2,
         m.position.x + m.size.x \div 2, m.position.y + m.size.y,
         m.position.z + m.size.z \div 2)

\* Mob.damage
damage(m, amount) ==
    IF m.is_dead \/ m.hit_cooldown > 0 THEN m
    ELSE IF m.health - amount <= 0
         THEN [m EXCEPT !.health = 0, !.hit_cooldown = 500, !.is_dead = TRUE]
         ELSE [m EXCEPT !.health = m.health - amount, !.hit_cooldown = 500]

\* An approach that steps away from the target.
approach_reversed(current, target, delta) ==
    IF current < target THEN current - delta
    ELSE IF current > target THEN current + delta
    ELSE current

\* Mob._approach
approach(current, target, delta) ==
    IF current < target THEN Min2(target, current + delta)
    ELSE IF current > target THEN Max2(target, current - delta)
    ELSE current

\* Mob._wander; rnd holds the draws of random.uniform
wander(m, dt, rnd) ==
    IF m.is_idle
    THEN IF m.idle_timer - dt <= 0
         THEN [m EXCEPT !.idle_timer = m.idle_timer - dt, !.is_idle = FALSE,
                        !.wander_timer = rnd.uniform_2_4,
                        !.wander_direction = rnd.uniform_0_360]
         ELSE [m EXCEPT !.idle_timer = m.idle_timer - dt]
    ELSE IF m.wander_timer - dt <= 0
         THEN [m EXCEPT !.wander_timer = m.wander_timer - dt, !.is_idle = TRUE,
                        !.idle_timer = rnd.uniform_2_5]
         ELSE LET speed == 1500
                  accel == IF m.on_ground THEN 10000 ELSE 2000
              IN  [m EXCEPT !.wander_timer = m.wander_timer - dt,
                            !.velocity.x = approach(m.velocity.x,
                                               mul(sin_deg(m.wander_direction), speed),
                                               mul(accel, dt)),
                            !.velocity.z = approach(m.velocity.z,
                                               mul(cos_deg(m.wander_direction), speed),
                                               mul(accel, dt))]

\* Mob._attack_player
attack_player(m) == [m EXCEPT !.attack_cooldown = 1500]

\* The squared planar distance of two positions
planar_sq(a, b) == (a.x - b.x) * (a.x - b.x) + (a.z - b.z) * (a.z - b.z)

\* The chase of Mob._update_ai: the velocity after the two _approach calls
chase(m, dt, player_position, difficulty) ==
    LET dist == sqrt(planar_sq(m.position, player_position))
        dx == player_position.x - m.position.x
        dz == player_position.z - m.position.z
        nx == IF dist > 0 THEN quot(dx * BLOCK_SIZE, dist) ELSE dx
        nz == IF dist > 0 THEN quot(dz * BLOCK_SIZE, dist) ELSE dz
        speed == IF difficulty = DIFFICULTY_HARD THEN mul(m.move_speed, 1200)
                 ELSE m.move_speed
    IN  [m EXCEPT !.velocity.x = approach(m.velocity.x, mul(nx, speed), mul(10000, dt)),
                  !.velocity.z = approach(m.velocity.z, mul(nz, speed), mul(10000, dt))]

\* Mob._update_ai; dist <= r is compared on the squares
update_ai(m, dt, player_position, game_mode, difficulty, rnd) ==
    IF m.is_hostile
    THEN IF difficulty = DIFFICULTY_PEACEFUL
         THEN [m EXCEPT !.velocity.x = 0, !.velocity.z = 0]
         ELSE IF game_mode = "Creative" THEN wander(m, dt, rnd)
         ELSE IF planar_sq(m.position, player_position)
                     <= m.detection_range * m.detection_range
         THEN LET m1 == chase(m, dt, player_position, difficulty)
              IN  IF /\ planar_sq(m.position, player_position)
                            <= m.attack_range * m.attack_range
                     /\ m.attack_cooldown <= 0
                  THEN attack_player(m1)
                  ELSE m1
         ELSE wander(m, dt, rnd)
    ELSE wander(m, dt, rnd)

\* The x and z branches of Mob._update_physics on a clamped movement: the hop,
\* or a new wander direction.
blocked(m, rnd) ==
    IF m.on_ground /\ m.jump_cooldown <= 0
    THEN [m EXCEPT !.velocity.y = m.jump_force, !.on_ground = FALSE,
                   !.jump_cooldown = 500]
    ELSE IF ~m.is_idle THEN [m EXCEPT !.wander_direction = rnd.uniform_0_360]
    ELSE m

\* The x axis of Mob._update_physics, allowed_dx being the result of the sweep
physics_x(m, dx, allowed_dx, rnd) ==
    [(IF allowed_dx # dx THEN blocked([m EXCEPT !.velocity.x = 0], rnd) ELSE m)
        EXCEPT !.position.x = @ + allowed_dx]

\* The y axis of Mob._update_physics
physics_y(m, dy, allowed_dy) ==
    [(IF allowed_dy # dy
      THEN [m EXCEPT !.on_ground = IF dy < 0 THEN TRUE ELSE @, !.velocity.y = 0]
      ELSE IF dy > 0 THEN [m EXCEPT !.on_ground = FALSE] ELSE m)
        EXCEPT !.position.y = @ + allowed_dy]

\* The z axis of Mob._update_physics
physics_z(m, dz, allowed_dz, rnd) ==
    [(IF allowed_dz # dz THEN blocked([m EXCEPT !.velocity.z = 0], rnd) ELSE m)
        EXCEPT !.position.z = @ + allowed_dz]

\* The friction of Mob._update_physics
friction(m) ==
    IF m.on_ground /\ m.is_idle
    THEN [m EXCEPT !.velocity.x = mul(@, 800), !.velocity.z = mul(@, 800)]
    ELSE m

\* _sweep_axis of the mob's box; the box the code moves along with the mob is
\* the box of the mob's position.
mob_sweep(C, m, delta, axis) == sweep_axis(C, get_aabb(m), delta, axis).allowed

\* Mob._update_physics after gravity: the three axes in the code's order, the
\* movements dx, dy, dz being computed before the first of them
physics_axes(C, m, dt, rnd) ==
    LET sweep_x(n, dx) == physics_x(n, dx, mob_sweep(C, n, dx, "x"), rnd)
        sweep_y(n, dy) == physics_y(n, dy, mob_sweep(C, n, dy, "y"))
        sweep_z(n, dz) == physics_z(n, dz, mob_sweep(C, n, dz, "z"), rnd)
    IN  friction(sweep_z(sweep_y(sweep_x(m, mul(m.velocity.x, dt)),
                                 mul(m.velocity.y, dt)),
                         mul(m.velocity.z, dt)))

\* Mob._update_physics over the world C
update_physics(C, m, dt, rnd) ==
    physics_axes(C, [m EXCEPT !.velocity.y = @ - mul(GRAVITY, dt)], dt, rnd)

\* The cooldowns of Mob.update
cooldowns(m, dt) ==
    [m EXCEPT !.hit_cooldown = IF @ > 0 THEN @ - dt ELSE @,
              !.attack_cooldown = IF @ > 0 THEN @ - dt ELSE @,
              !.jump_cooldown = IF @ > 0 THEN @ - dt ELSE @]

\* Mob.update
Mob_update(C, m, dt, player_position, game_mode, difficulty, rnd) ==
    IF m.is_dead THEN [m EXCEPT !.death_timer = m.death_timer + dt]
    ELSE update_physics(C, update_ai(cooldowns(m, dt), dt, player_position,
                                     game_mode, difficulty, rnd), dt, rnd)

\* Player.take_damage
take_damage(p, amount) ==
    IF p.game_mode = "Creative" THEN p
    ELSE [p EXCEPT !.health = Max2(0, p.health - amount)]

\* MobSystem._is_outside_render_distance
is_outside_render_distance(m, player_position) ==
    Max2(Abs(m.position.x \div (CHUNK_SIZE_X * BLOCK_SIZE)
               - player_position.x \div (CHUNK_SIZE_X * BLOCK_SIZE)),
         Abs(m.position.z \div (CHUNK_SIZE_Z * BLOCK_SIZE)
               - player_position.z \div (CHUNK_SIZE_Z * BLOCK_SIZE)))
        > RENDER_DISTANCE

\* MobSystem._try_spawn_mobs: the lists of mobs it can leave.  It accepts a
\* column strictly inside a chunk within RENDER_DISTANCE of the player whose
\* chunk holds fewer than max_mobs_per_chunk mobs, the terrain at a height of
\* 4 to 49 and the two cells above it free.  T is the terrain_height it reads, as a function
\* of the column.
try_spawn_mobs(T, C, mobs, player_position, is_night, difficulty, rnd) ==
    LET pcx == player_position.x \div (CHUNK_SIZE_X * BLOCK_SIZE)
        pcz == player_position.z \div (CHUNK_SIZE_Z * BLOCK_SIZE)
        max_mobs_per_chunk == CASE difficulty = DIFFICULTY_PEACEFUL -> 2
                                [] difficulty = DIFFICULTY_NORMAL -> 5
                                [] difficulty = DIFFICULTY_HARD -> 8
                                [] OTHER -> 3
        mobs_in_chunk(cx, cz) ==
            Cardinality({i \in DOMAIN mobs :
                /\ mobs[i].position.x \div (CHUNK_SIZE_X * BLOCK_SIZE) = cx
                /\ mobs[i].position.z \div (CHUNK_SIZE_Z * BLOCK_SIZE) = cz})
        places ==
            {w \in ((pcx - RENDER_DISTANCE) * CHUNK_SIZE_X
                        .. (pcx + RENDER_DISTANCE + 1) * CHUNK_SIZE_X - 1)
                   \X ((pcz - RENDER_DISTANCE) * CHUNK_SIZE_Z
                        .. (pcz + RENDER_DISTANCE + 1) * CHUNK_SIZE_Z - 1) :
                /\ mobs_in_chunk(w[1] \div CHUNK_SIZE_X, w[2] \div CHUNK_SIZE_Z)
                      < max_mobs_per_chunk
                /\ w[1] % CHUNK_SIZE_X \in 1..(CHUNK_SIZE_X - 2)
                /\ w[2] % CHUNK_SIZE_Z \in 1..(CHUNK_SIZE_Z - 2)
                /\ T[w] + 1 >= 5
                /\ T[w] + 1 <= 50
                /\ ~is_solid_in(C, w[1], T[w] + 1, w[2])
                /\ ~is_solid_in(C, w[1], T[w] + 2, w[2])}
    IN  IF is_night /\ difficulty = DIFFICULTY_PEACEFUL THEN {mobs}
        ELSE {mobs} \cup
             {Append(mobs,
                     Mob_init(IF is_night THEN MOB_ZOMBIE ELSE MOB_SHEEP,
                              Vec3(w[1] * BLOCK_SIZE + BLOCK_SIZE \div 2,
                                   (T[w] + 1) * BLOCK_SIZE,
                                   w[2] * BLOCK_SIZE + BLOCK_SIZE \div 2),
                              rnd.uniform_0_360, rnd.uniform_2_5)) : w \in places}

\* The attack test of MobSystem.update on an updated mob
attacks(m, p) ==
    /\ m.is_hostile /\ ~m.is_dead /\ p.game_mode = "Survival"
    /\ planar_sq(m.position, p.position) <= m.attack_range * m.attack_range
    /\ m.attack_cooldown <= 0

\* The knockback of MobSystem.update, length being the planar distance
knockback(p, dx, dz, length) ==
    IF length > 0
    THEN [p EXCEPT !.velocity.x = @ + quot(dx * 8000, length),
                   !.velocity.z = @ + quot(dz * 8000, length),
                   !.velocity.y = @ + 4000]
    ELSE p

\* The attack and the death handling of MobSystem.update on an updated mob
attack(m, p) ==
    IF attacks(m, p)
    THEN [mob |-> [m EXCEPT !.attack_cooldown = 1500],
          player |-> knockback(take_damage(p, m.attack_damage),
                               p.position.x - m.position.x,
                               p.position.z - m.position.z,
                               sqrt(planar_sq(p.position, m.position))),
          remove |-> m.is_dead /\ m.death_timer > 100,
          drops |-> m.is_dead /\ m.death_timer > 100]
    ELSE [mob |-> m, player |-> p, remove |-> m.is_dead /\ m.death_timer > 100,
          drops |-> m.is_dead /\ m.death_timer > 100]

\* The body of the loop without the despawn of hostile mobs by day
update_mob_by_night(C, m, p, dt, difficulty, is_night, rnd) ==
    IF \/ is_outside_render_distance(m, p.position)
       \/ m.is_hostile /\ difficulty = DIFFICULTY_PEACEFUL
    THEN [mob |-> m, player |-> p, remove |-> TRUE, drops |-> FALSE]
    ELSE attack(Mob_update(C, m, dt, p.position, p.game_mode, difficulty, rnd), p)

\* The body of the loop of MobSystem.update for one mob:
\* [mob, player, remove, drops], drops telling that the death handling has
\* spawned the drops of the mob
update_mob(C, m, p, dt, difficulty, is_night, rnd) ==
    IF \/ is_outside_render_distance(m, p.position)
       \/ m.is_hostile /\ ~is_night
       \/ m.is_hostile /\ difficulty = DIFFICULTY_PEACEFUL
    THEN [mob |-> m, player |-> p, remove |-> TRUE, drops |-> FALSE]
    ELSE attack(Mob_update(C, m, dt, p.position, p.game_mode, difficulty, rnd), p)

\* The loop of MobSystem.update over the mobs from index i on:
\* [mobs, player, dropped], dropped counting the mobs whose drops it spawned
RECURSIVE update_mobs(_, _, _, _, _, _, _, _)
update_mobs(C, mobs, i, p, dt, difficulty, is_night, rnd) ==
    IF i > Len(mobs) THEN [mobs |-> <<>>, player |-> p, dropped |-> 0]
    ELSE LET r == update_mob(C, mobs[i], p, dt, difficulty, is_night, rnd)
             rest == update_mobs(C, mobs, i + 1, r.player, dt, difficulty, is_night, rnd)
         IN  [mobs |-> IF r.remove THEN rest.mobs ELSE <<r.mob>> \o rest.mobs,
              player |-> rest.player,
              dropped |-> rest.dropped + (IF r.drops THEN 1 ELSE 0)]

\* Night is 0.5 <= time_of_day < 0.9
night(time_of_day) == 500 <= time_of_day /\ time_of_day < 900

\* MobSystem.update: the pairs [mob_system, player] it can leave, T being the
\* terrain_height the spawner reads; mob_system.dropped is the number of mobs
\* whose drops the call gave to drop_system.spawn_drop
MobSystem_update(T, C, ms, p, dt, time_of_day, rnd) ==
    LET timer == ms.spawn_timer + dt
        spawned == IF timer >= ms.spawn_interval
                   THEN try_spawn_mobs(T, C, ms.mobs, p.position, night(time_of_day),
                                       ms.difficulty, rnd)
                   ELSE {ms.mobs}
    IN  {LET r == update_mobs(C, mobs, 1, p, dt, ms.difficulty, night(time_of_day), rnd)
         IN  [mob_system |-> [ms EXCEPT !.mobs = r.mobs, !.dropped = r.dropped,
                                        !.spawn_timer = IF timer >= ms.spawn_interval
                                                        THEN 0 ELSE timer],
              player |-> r.player] : mobs \in spawned}

\* Player.__init__, as far as the mobs, the survival stats, the fall tracking
\* and the block breaking read it
Player_init(game_mode) ==
    [position |-> Vec3(0, (terrain_height(0, 0) + 3) * BLOCK_SIZE, 0),
     velocity |-> Vec3(0, 0, 0), game_mode |-> game_mode,
     on_ground |-> FALSE, is_flying |-> FALSE,
     max_health |-> 20000, health |-> 20000,
     max_hunger |-> 20000, hunger |-> 20000, saturation |-> 5000,
     fall_start_y |-> (terrain_height(0, 0) + 3) * BLOCK_SIZE,
     last_on_ground |-> TRUE,
     regen_timer |-> 0, hunger_timer |-> 0, keys_prev_jump |-> FALSE,
     breaking_block |-> <<>>, breaking_progress |-> 0,
     breaking_block_type |-> 0 - 1, creative_block_broken_this_click |-> FALSE]

\* The number of frames of a run and the draws of random.uniform.
MaxFrames == 12
RandomDraws == {[uniform_2_4 |-> 2000, uniform_0_360 |-> 90, uniform_2_5 |-> 2000],
                [uniform_2_4 |-> 4000, uniform_0_360 |-> 180, uniform_2_5 |-> 5000]}

\* Where the player stands: on the column (1, 1) of the terrain.
PlayerStand == Vec3(BLOCK_SIZE + 500, 3 * BLOCK_SIZE + EPSILON, BLOCK_SIZE + 500)

\* Where the mob starts: in the pit west of the player and in the pit north of
\* it, both within attack range, and on the column beyond that pit, a step
\* out of attack range.
MobStarts == {Vec3(500, 2 * BLOCK_SIZE + EPSILON, BLOCK_SIZE + 500),
              Vec3(BLOCK_SIZE + 500, 2 * BLOCK_SIZE + EPSILON, 500),
              Vec3(BLOCK_SIZE + 500, 3 * BLOCK_SIZE + EPSILON, 0 - 100)}

\* The preloaded world with one mob near the standing player, at a frame time
\* of 20 or of 50 milliseconds (App._update caps dt at 0.05).
InitMobs ==
    /\ chunks = SweepWorld.C
    /\ chunk_nodes = SweepWorld.N
    /\ preload_complete = TRUE
    /\ chunk_files = EmptyMap
    /\ last = [NoCall EXCEPT !.op = "preload", !.ok = TRUE,
                             !.center = SweepWorld.center,
                             !.created = SweepWorld.created,
                             !.builds = SweepWorld.builds]
    /\ written = EmptyMap
    /\ sweep = NoSweep
    /\ \E t \in {MOB_ZOMBIE, MOB_SHEEP}, s \in MobStarts, f \in {20, 50},
          d \in {DIFFICULTY_PEACEFUL, DIFFICULTY_NORMAL, DIFFICULTY_HARD} :
           mob_system = [pc |-> "run", mobs |-> <<Mob_init(t, s, 0, 2000)>>,
                         spawn_timer |-> 0, spawn_interval |-> 5000,
                         difficulty |-> d, dt |-> f, frames |-> 0, dropped |-> 0]
    /\ \E g \in {"Survival", "Creative"} :
           player = [Player_init(g) EXCEPT !.position = PlayerStand,
                                           !.fall_start_y = PlayerStand.y]

\* A frame: MobSystem.update(dt, player, time_of_day), by day or by night
MobSystemUpdate ==
    /\ mob_system.pc = "run"
    /\ mob_system.frames < MaxFrames
    /\ \E time_of_day \in {200, 600}, rnd \in RandomDraws :
         \E r \in MobSystem_update([w \in Int \X Int |-> terrain_height(w[1], w[2])],
                                   chunks, mob_system, player, mob_system.dt,
                                   time_of_day, rnd) :
           /\ mob_system' = [r.mob_system EXCEPT !.frames = @ + 1]
           /\ player' = r.player
    /\ UNCHANGED <<chunks, chunk_nodes, preload_complete, chunk_files, last, written,
                   sweep>>

\* The player hits the first mob: hit_mob.damage(2.0)
MobDamage ==
    /\ mob_system.pc = "run"
    /\ Len(mob_system.mobs) > 0
    /\ mob_system' = [mob_system EXCEPT !.mobs[1] = damage(@, 2000)]
    /\ mob_system'.mobs # mob_system.mobs
    /\ UNCHANGED <<chunks, chunk_nodes, preload_complete, chunk_files, last, written,
                   sweep, player>>

NextMobs == MobSystemUpdate \/ MobDamage

SpecMobs == InitMobs /\ [][NextMobs]_vars

\* The first mob of the system, when the frame keeps it through its update.
Kept == Len(mob_system.mobs) > 0 /\ Len(mob_system'.mobs) > 0

\* C11: in Survival, off Peaceful and at night, a live hostile mob that is
\* within attack range of the player with its attack cooldown elapsed when
\* MobSystem.update runs makes the player take the mob's attack damage in that
\* update, and resets its cooldown.
C11_AttackDamages ==
    [][(/\ mob_system.pc = "run" /\ Kept
        /\ mob_system'.frames = mob_system.frames + 1
        /\ player.game_mode = "Survival"
        /\ mob_system.difficulty # DIFFICULTY_PEACEFUL
        /\ mob_system.mobs[1].is_hostile /\ ~mob_system.mobs[1].is_dead
        /\ mob_system.mobs[1].attack_cooldown - mob_system.dt <= 0
        /\ planar_sq(mob_system.mobs[1].position, player.position)
              <= mob_system.mobs[1].attack_range * mob_system.mobs[1].attack_range
        /\ planar_sq(mob_system'.mobs[1].position, player.position)
              <= mob_system.mobs[1].attack_range * mob_system.mobs[1].attack_range)
       => /\ player'.health
               = Max2(0, player.health - mob_system.mobs[1].attack_damage)
          /\ mob_system'.mobs[1].attack_cooldown = 1500]_vars

(* ----------------------------------------------------------------------- *)
(* Cacti: the last two passes of World._populate_chunk_blocks.  The fixed  *)
(* terrain places no cactus of its own; the columns are drawn.             *)
(* ----------------------------------------------------------------------- *)

BLOCK_CACTUS == 11

\* World._cactus_touching_another
cactus_touching_another(ch, lx, y, lz) ==
    \E dz \in -1..1, dx \in -1..1 :
        /\ ~(dx = 0 /\ dz = 0)
        /\ 0 <= lx + dx /\ lx + dx < CHUNK_SIZE_X
        /\ 0 <= lz + dz /\ lz + dz < CHUNK_SIZE_Z
        /\ get_block_local(ch, lx + dx, y, lz + dz) = BLOCK_CACTUS

\* The removal of the post-process: the cell, then the cactus cells above it
\* up to the first cell that is no cactus.
RECURSIVE remove_cactus_above(_, _, _, _)
remove_cactus_above(ch, lx, remove_y, lz) ==
    IF remove_y < CHUNK_SIZE_Y /\ get_block_local(ch, lx, remove_y, lz) = BLOCK_CACTUS
    THEN remove_cactus_above(set_block_local(ch, lx, remove_y, lz, BLOCK_AIR),
                             lx, remove_y + 1, lz)
    ELSE ch

\* The post-process of World._populate_chunk_blocks from row (y, lz) on: the
\* loop over lx ends at the first cactus it removes (break).
RECURSIVE remove_touching_cacti(_, _, _)
remove_touching_cacti(ch, y, lz) ==
    IF y >= CHUNK_SIZE_Y THEN ch
    ELSE IF lz >= CHUNK_SIZE_Z THEN remove_touching_cacti(ch, y + 1, 0)
    ELSE LET touching == {lx \in 0..(CHUNK_SIZE_X - 1) :
                            /\ get_block_local(ch, lx, y, lz) = BLOCK_CACTUS
                            /\ cactus_touching_another(ch, lx, y, lz)}
         IN  IF touching = {} THEN remove_touching_cacti(ch, y, lz + 1)
             ELSE remove_touching_cacti(
                      remove_cactus_above(
                          set_block_local(ch, SetMin(touching), y, lz, BLOCK_AIR),
                          SetMin(touching), y + 1, lz),
                      y, lz + 1)

\* The placement of cactus blocks: columns [lx, lz, wy, height] as
\* generate_cactus returns them, cut to the chunk.
place_cacti(ch, columns) ==
    [ch EXCEPT !.blocks = [i \in 1..GridLen |->
        IF \E c \in columns : /\ c.lx = cell_lx(i) /\ c.lz = cell_lz(i)
                              /\ c.wy <= cell_y(i) /\ cell_y(i) < c.wy + c.height
        THEN BLOCK_CACTUS ELSE ch.blocks[i]]]

\* The cactus columns of the draw: up to three columns of the chunk, on
\* distinct footprints, of any base height above bedrock and of height 1 or 2.
CactusColumns ==
    [lx : 0..(CHUNK_SIZE_X - 1), lz : 0..(CHUNK_SIZE_Z - 1),
     wy : 1..(CHUNK_SIZE_Y - 1), height : 1..2]
CactusDraws ==
    {S \in {{a, b, c} : a, b, c \in CactusColumns} :
        \A a, b \in S : (a.lx = b.lx /\ a.lz = b.lz) => a = b}

\* The desert chunk of the terrain.
DesertKey == <<-1, -1>>

\* The desert chunk during its population, its cactus blocks placed.
InitCacti ==
    /\ \E S \in CactusDraws :
         chunks = [k \in {DesertKey} |->
                      place_cacti(populate_chunk_blocks(Chunk_init, DesertKey[1],
                                                        DesertKey[2]), S)]
    /\ chunk_nodes = {}
    /\ preload_complete = FALSE
    /\ chunk_files = EmptyMap
    /\ last = [NoCall EXCEPT !.op = "place_cacti"]
    /\ written = EmptyMap
    /\ sweep = NoSweep
    /\ mob_system = NoMobSystem
    /\ player = NoPlayer

\* The post-process ends the population of the chunk.
RemoveTouchingCacti ==
    /\ last.op = "place_cacti"
    /\ chunks' = [k \in {DesertKey} |-> remove_touching_cacti(chunks[DesertKey], 0, 0)]
    /\ last' = [last EXCEPT !.op = "populate", !.ok = TRUE]
    /\ UNCHANGED <<chunk_nodes, preload_complete, chunk_files, written, sweep,
                   mob_system, player>>

SpecCacti == InitCacti /\ [][RemoveTouchingCacti]_vars

\* The column (lx, lz) of the chunk holds a cactus block.
HoldsCactus(ch, lx, lz) ==
    \E y \in 0..(CHUNK_SIZE_Y - 1) : get_block_local(ch, lx, y, lz) = BLOCK_CACTUS

AIOffsets == {0 - 10000, 0 - 1, 0, 1, 3000}

InitAI ==
    /\ chunks = EmptyMap
    /\ chunk_nodes = {}
    /\ preload_complete = FALSE
    /\ chunk_files = EmptyMap
    /\ last = NoCall
    /\ written = EmptyMap
    /\ sweep = NoSweep
    /\ \E t \in {MOB_ZOMBIE, MOB_SHEEP}, dx \in AIOffsets, dz \in AIOffsets,
          f \in {1, 20, 50},
          d \in {DIFFICULTY_PEACEFUL, DIFFICULTY_NORMAL, DIFFICULTY_HARD} :
           mob_system = [pc |-> "spawned",
                         mobs |-> <<Mob_init(t, Vec3(PlayerStand.x - dx, PlayerStand.y,
                                                     PlayerStand.z - dz), 0, 2000)>>,
                         spawn_timer |-> 0, spawn_interval |-> 5000,
                         difficulty |-> d, dt |-> f, frames |-> 0]
    /\ \E g \in {"Survival", "Creative"} :
           player = [Player_init(g) EXCEPT !.position = PlayerStand,
                                           !.fall_start_y = PlayerStand.y]

\* Mob.update: the call of _update_ai
UpdateAI ==
    /\ mob_system.pc = "spawned"
    /\ \E rnd \in RandomDraws :
         mob_system' = [mob_system EXCEPT
                           !.pc = "ai",
                           !.mobs[1] = update_ai(@, mob_system.dt, player.position,
                                                 player.game_mode,
                                                 mob_system.difficulty, rnd)]
    /\ UNCHANGED <<chunks, chunk_nodes, preload_complete, chunk_files, last, written,
                   sweep, player>>

SpecAI == InitAI /\ [][UpdateAI]_vars

\* The mob of the draw is hostile and hunts: Survival, off Peaceful, at a
\* positive planar distance within its detection range.
Hunts ==
    /\ mob_system.mobs[1].is_hostile /\ ~mob_system.mobs[1].is_dead
    /\ player.game_mode = "Survival"
    /\ mob_system.difficulty # DIFFICULTY_PEACEFUL
    /\ planar_sq(mob_system.mobs[1].position, player.position) > 0
    /\ planar_sq(mob_system.mobs[1].position, player.position)
          <= mob_system.mobs[1].detection_range * mob_system.mobs[1].detection_range

\* C13: a live hostile mob at rest, at a positive planar distance of at most
\* detection_range from the player, in Survival and off Peaceful, leaves one AI
\* update with a horizontal velocity whose dot product with the direction from
\* the mob to the player is strictly positive.
C13_TurnsToPlayer ==
    (mob_system.pc = "ai" /\ Hunts) =>
        mob_system.mobs[1].velocity.x
              * (player.position.x - mob_system.mobs[1].position.x)
          + mob_system.mobs[1].velocity.z
              * (player.position.z - mob_system.mobs[1].position.z) > 0

\* A hunting mob after its AI update, the player off both of its axes.
C13_Witness ==
    /\ mob_system.pc = "ai" /\ Hunts
    /\ mob_system.mobs[1].velocity.x < 0
    /\ mob_system.mobs[1].velocity.z > 0

\* C14: in every reachable state, also after a chunk was created from saved
\* data of any shape, the blocks list of every loaded chunk has exactly
\* CHUNK_SIZE_X * CHUNK_SIZE_Y * CHUNK_SIZE_Z elements.
C14_GridLength ==
    \A k \in DOMAIN chunks : Len(chunks[k].blocks) = GridLen

\* The grid of chunk k at its first generation: created in an empty world
\* with an empty chunks directory.
FirstGeneration(k) == ensure_chunk(EmptyMap, k[1], k[2], EmptyMap)[k].blocks

SettleCells == PlayerCells \cup {<<1, 1 - CHUNK_SIZE_Z>>}

SettleStarts(files) ==
    {[C |-> EmptyMap, N |-> {}]} \cup
    {[C |-> r.C, N |-> r.N] :
        r \in {preload_chunks_around(EmptyMap, {}, files, p[1], p[2]) : p \in SettleCells}}

\* An empty chunks directory or the file of SavedKey; a start world with up to
\* two of its chunks marked dirty; the player in one of the cells of SettleCells.
InitSettle ==
    /\ \E files \in {EmptyMap, [k \in {SavedKey} |-> SavedBlocks]} :
         /\ chunk_files = files
         /\ \E w \in SettleStarts(files) :
              /\ \E d1, d2 \in DOMAIN w.C \cup {<<0, 0>>} :
                    chunks = [k \in DOMAIN w.C |->
                                 IF k \in {d1, d2} THEN [w.C[k] EXCEPT !.dirty = TRUE]
                                 ELSE w.C[k]]
              /\ chunk_nodes = w.N
              /\ preload_complete = (w.C # EmptyMap)
    /\ \E p \in SettleCells :
         last = [NoCall EXCEPT !.center = <<p[1] \div CHUNK_SIZE_X, p[2] \div CHUNK_SIZE_Z>>]
    /\ written = EmptyMap
    /\ sweep = NoSweep
    /\ mob_system = NoMobSystem
    /\ player = NoPlayer

\* A frame of a player who stays in the chunk last.center
UpdateAtFocus ==
    \E p \in SettleCells :
        /\ <<p[1] \div CHUNK_SIZE_X, p[2] \div CHUNK_SIZE_Z>> = last.center
        /\ Update(p)

\* The task manager runs App._update every frame.
SpecSettle == InitSettle /\ [][UpdateAtFocus]_vars /\ WF_vars(UpdateAtFocus)

\* Every chunk within RENDER_DISTANCE of the focus is loaded, has a mesh and is
\* not dirty.
Settled ==
    \A k \in SeqRange(desired_list(last.center[1], last.center[2])) :
        k \in DOMAIN chunks /\ k \in chunk_nodes /\ ~chunks[k].dirty

\* The player cell of the fixed focus.
FocusCell ==
    CHOOSE p \in SettleCells :
        <<p[1] \div CHUNK_SIZE_X, p[2] \div CHUNK_SIZE_Z>> = last.center

\* A further World.update changes neither the chunks nor the mesh nodes.
Quiescent ==
    \E r \in {update(chunks, chunk_nodes, chunk_files, FocusCell[1], FocusCell[2])} :
        r.C = chunks /\ r.N = chunk_nodes

\* C16: with the focus chunk fixed and no block written, the frames end, after
\* finitely many World.update calls, in a world where every chunk within
\* RENDER_DISTANCE of the focus is loaded, has a mesh and is not dirty: a world
\* that further updates leave unchanged is such a world.
C16_SettledWhenQuiescent == Quiescent => Settled

(* ----------------------------------------------------------------------- *)
(* Order of terrain generation and meshing in World.update                 *)
(* ----------------------------------------------------------------------- *)
EdgeAdjacent(k) == {<<k[1] - 1, k[2]>>, <<k[1] + 1, k[2]>>,
                    <<k[1], k[2] - 1>>, <<k[1], k[2] + 1>>}

\* The chunks that got their mesh node in the step: their mesh was built in it.
MeshedInStep == chunk_nodes' \ chunk_nodes

\* C17: whenever World.update builds the mesh of a chunk, the edge-adjacent
\* chunks of that chunk that belong to the desired set of the call are loaded
\* (the creation loop of the call has ended when the meshing loop runs, and
\* nothing is created or unloaded after it, so "loaded when the mesh is built"
\* is "loaded when the call returns").
C17_NeighboursLoadedAtMesh ==
    [][last'.op = "update" =>
          \A k \in MeshedInStep :
              \A n \in EdgeAdjacent(k) \cap SeqRange(desired_list(last'.center[1], last'.center[2])) :
                  n \in DOMAIN chunks']_vars

Ring(k, c) == Max2(Abs(k[1] - c[1]), Abs(k[2] - c[2]))

\* The square of chunks within Chebyshev distance RENDER_DISTANCE of c.
Square(c) ==
    {<<x, z>> : x \in (c[1] - RENDER_DISTANCE)..(c[1] + RENDER_DISTANCE),
                z \in (c[2] - RENDER_DISTANCE)..(c[2] + RENDER_DISTANCE)}

\* The chunk k was loaded before the step or created in it, and the step built
\* its mesh: it has a node and is clean after a step that found it dirty or
\* without node.
MeshBuiltInStep(k) ==
    /\ k \in chunk_nodes' /\ ~chunks'[k].dirty
    /\ (k \notin chunk_nodes \/ chunks[k].dirty)

\* C18: in World.update the desired list holds exactly the (2R+1)^2 chunks
\* within Chebyshev distance R = RENDER_DISTANCE of the focus chunk, each once;
\* a chunk is created only if no desired chunk of a strictly smaller ring is
\* missing, and a loaded chunk is meshed only if no loaded desired chunk of a
\* strictly smaller ring is dirty or lacks a mesh.
C18_NearestFirst ==
    [][last'.op = "update" =>
          LET c == last'.center
              desired == desired_list(c[1], c[2])
          IN  /\ Len(desired) = (2 * RENDER_DISTANCE + 1) * (2 * RENDER_DISTANCE + 1)
              /\ SeqRange(desired) = Square(c)
              /\ \A i, j \in 1..Len(desired) : desired[i] = desired[j] => i = j
              /\ \A k \in last'.created :
                    \A m \in Square(c) : Ring(m, c) < Ring(k, c) => m \in DOMAIN chunks
              /\ \A k \in DOMAIN chunks' :
                    MeshBuiltInStep(k) =>
                        \A m \in Square(c) \cap DOMAIN chunks' :
                            Ring(m, c) < Ring(k, c) =>
                                (~chunks'[m].dirty /\ m \in chunk_nodes')]_vars

(* ----------------------------------------------------------------------- *)
(* The hop of a blocked mob (Mob._update_physics)                          *)
(* ----------------------------------------------------------------------- *)
\* The mob as Mob._update_physics sweeps it in a frame of Mob.update: after the
\* cooldowns, the AI and gravity.
swept_mob(m, dt, p, difficulty, rnd) ==
    [update_ai(cooldowns(m, dt), dt, p.position, p.game_mode, difficulty, rnd)
        EXCEPT !.velocity.y = @ - mul(GRAVITY, dt)]

\* allowed_dx != dx
x_clamped(C, g, dt) ==
    mob_sweep(C, g, mul(g.velocity.x, dt), "x") # mul(g.velocity.x, dt)

\* The mob after the x axis, and after the y axis that follows it
after_x(C, g, dt, rnd) ==
    physics_x(g, mul(g.velocity.x, dt), mob_sweep(C, g, mul(g.velocity.x, dt), "x"), rnd)
after_y(C, n, dy) == physics_y(n, dy, mob_sweep(C, n, dy, "y"))

\* allowed_dz != dz
z_clamped(C, g, dt, rnd) ==
    mob_sweep(C, after_y(C, after_x(C, g, dt, rnd), mul(g.velocity.y, dt)),
              mul(g.velocity.z, dt), "z") # mul(g.velocity.z, dt)

\* The mob carries the hop impulse.
Hopping(q) == q.velocity.y = q.jump_force /\ q.jump_force > 0 /\ ~q.on_ground

HopsWhenBlocked(C, g, dt, rnd) ==
    (/\ g.on_ground /\ g.jump_cooldown <= 0
     /\ (x_clamped(C, g, dt) \/ z_clamped(C, g, dt, rnd)))
    => Hopping(physics_axes(C, g, dt, rnd))

\* C19: a physics update that clamps the x displacement or the z displacement
\* of a grounded mob whose jump cooldown has elapsed leaves the mob with
\* velocity.y = jump_force > 0 and on_ground false; stated of the physics
\* update of the next frame of every living mob the frames lead to.
C19_HopWhenBlocked ==
    (mob_system.pc = "run" /\ Len(mob_system.mobs) > 0) =>
        \A rnd \in RandomDraws :
            ~mob_system.mobs[1].is_dead =>
                HopsWhenBlocked(chunks,
                                swept_mob(mob_system.mobs[1], mob_system.dt, player,
                                          mob_system.difficulty, rnd),
                                mob_system.dt, rnd)

(* ----------------------------------------------------------------------- *)
(* Fall damage (Player.update, src/voxel/player.py)                        *)
(* The player presses no movement key, so that velocity.x and velocity.z   *)
(* stay 0 and the x and z sweeps move nothing; the ground under its box    *)
(* is flat and drops when the edge the player stands on gives way (the     *)
(* block under it is removed) as it does when the player walks off it.     *)
(* ----------------------------------------------------------------------- *)
JUMP_SPEED == 8500

\* Player.heal
heal(p, amount) == [p EXCEPT !.health = Min2(p.max_health, p.health + amount)]

\* Player.consume_hunger
consume_hunger(p, amount) ==
    IF p.saturation > 0
    THEN IF p.saturation - amount < 0
         THEN [p EXCEPT !.saturation = 0,
                        !.hunger = Max2(0, p.hunger - (amount - p.saturation))]
         ELSE [p EXCEPT !.saturation = p.saturation - amount]
    ELSE IF amount > 0 THEN [p EXCEPT !.hunger = Max2(0, p.hunger - amount)]
    ELSE p

\* Player.respawn
respawn(p) ==
    [p EXCEPT !.position = Vec3(0, (terrain_height(0, 0) + 3) * BLOCK_SIZE, 0),
              !.velocity = Vec3(0, 0, 0),
              !.health = p.max_health, !.hunger = p.max_hunger,
              !.fall_start_y = (terrain_height(0, 0) + 3) * BLOCK_SIZE]

\* Player.update_survival: the health regeneration, the hunger tick and the
\* death check
update_survival(p, dt) ==
    IF p.game_mode = "Creative" THEN p
    ELSE LET regenerated ==
                 IF p.hunger > 16000 /\ p.health < p.max_health
                 THEN IF p.regen_timer + dt >= 4000
                      THEN [consume_hunger(heal(p, 1000), 250) EXCEPT !.regen_timer = 0]
                      ELSE [p EXCEPT !.regen_timer = p.regen_timer + dt]
                 ELSE p
             ticked ==
                 IF regenerated.hunger_timer + dt >= 30000
                 THEN [consume_hunger(regenerated, 500) EXCEPT !.hunger_timer = 0]
                 ELSE [regenerated EXCEPT !.hunger_timer = @ + dt]
         IN  IF ticked.health <= 0 THEN respawn(ticked) ELSE ticked

\* The jump key of Player.update, for a player who does not fly
jump_key(p, jump) ==
    [(IF jump /\ ~p.keys_prev_jump /\ p.on_ground
      THEN [p EXCEPT !.velocity.y = JUMP_SPEED, !.on_ground = FALSE]
      ELSE p) EXCEPT !.keys_prev_jump = jump]

\* Player._player_aabb
player_aabb(p) ==
    AABB(p.position.x - PLAYER_WIDTH \div 2, p.position.y,
         p.position.z - PLAYER_WIDTH \div 2,
         p.position.x + PLAYER_WIDTH \div 2, p.position.y + PLAYER_HEIGHT,
         p.position.z + PLAYER_WIDTH \div 2)

\* Player._sweep_axis on the y axis over flat ground: every block below the
\* layer ground is solid, every block from it on is air.
ground_sweep(ground, aabb, delta) ==
    IF delta = 0 THEN 0
    ELSE LET blocking ==
                 {b \in sweep_range(aabb.min_x, aabb.max_x, delta, FALSE)
                        \X sweep_range(aabb.min_y, aabb.max_y, delta, TRUE)
                        \X sweep_range(aabb.min_z, aabb.max_z, delta, FALSE) :
                      /\ b[2] < ground
                      /\ sweep_blocked(aabb, block_aabb(b[1], b[2], b[3]), delta, "y")}
             limits == {sweep_limit(aabb, block_aabb(b[1], b[2], b[3]), delta, "y") :
                            b \in blocking}
         IN  IF delta > 0 THEN SetMin(limits \cup {delta})
             ELSE SetMax(limits \cup {delta})

\* The fall damage of a landing: max(0, int(fall_distance - 3)) points
fall_damage(p, fall_distance) ==
    IF fall_distance > 0 /\ quot(fall_distance - 3 * BLOCK_SIZE, BLOCK_SIZE) > 0
    THEN take_damage(p, quot(fall_distance - 3 * BLOCK_SIZE, BLOCK_SIZE) * BLOCK_SIZE)
    ELSE p

\* The y axis of Player.update when the sweep clamped a downward movement
landing(p, allowed_dy) ==
    [(IF ~p.on_ground
      THEN fall_damage(p, p.fall_start_y - p.position.y - allowed_dy)
      ELSE p) EXCEPT !.on_ground = TRUE,
                     !.fall_start_y = p.position.y + allowed_dy]

\* The y axis of Player.update: the result of the sweep
sweep_y(p, dy, allowed_dy) ==
    IF allowed_dy # dy
    THEN [(IF dy < 0 THEN landing(p, allowed_dy) ELSE p) EXCEPT !.velocity.y = 0]
    ELSE IF dy > 0 THEN [p EXCEPT !.on_ground = FALSE]
    ELSE p

\* The peak tracking of Player.update and the move along y
track_peak(p, allowed_dy) ==
    [p EXCEPT !.fall_start_y = IF p.velocity.y > 0
                               THEN Max2(@, p.position.y + allowed_dy) ELSE @,
              !.position.y = @ + allowed_dy]

\* The "just left the ground" check of Player.update and last_on_ground
left_ground(p) ==
    [p EXCEPT !.fall_start_y = IF ~p.on_ground /\ p.velocity.y <= 0 /\ p.last_on_ground
                               THEN p.position.y ELSE @,
              !.last_on_ground = p.on_ground]

\* The player as the y sweep of the frame finds it: after update_survival, the
\* jump key and gravity
swept_player(p, jump, dt) ==
    [jump_key(update_survival(p, dt), jump) EXCEPT !.velocity.y = @ - mul(GRAVITY, dt)]

\* The y axis of Player.update over the ground, for the player g that the
\* sweep finds
Player_fall(g, dt, ground) ==
    LET dy == mul(g.velocity.y, dt)
        allowed_dy == ground_sweep(ground, player_aabb(g), dy)
    IN  left_ground(track_peak(sweep_y(g, dy, allowed_dy), allowed_dy))

\* The frames of a run, the tops of the ground under the player and the top
\* of the ground at the spawn point (0, 0).
MaxFallFrames == 24
FallGrounds == {1, 5, 6}
SpawnGround == terrain_height(0, 0) + 1

\* A Survival player standing on the ground after a landing, or at its spawn
\* point above the ground, in good or in poor health; sweep holds the y sweep
\* of the last frame with the history of the run: peak is the highest y
\* reached since the player last stood on the ground, stood whether it ever
\* stood on it.
InitFall ==
    /\ chunks = EmptyMap
    /\ chunk_nodes = {}
    /\ preload_complete = FALSE
    /\ chunk_files = EmptyMap
    /\ last = NoCall
    /\ written = EmptyMap
    /\ mob_system = NoMobSystem
    /\ \E f \in {25, 50}, h \in {20000, 1000} :
         \/ /\ player = [Player_init("Survival") EXCEPT !.health = h]
            /\ sweep = [pc |-> "fall", ground |-> SpawnGround, dt |-> f, frames |-> 0,
                        delta |-> 0, allowed |-> 0,
                        peak |-> Player_init("Survival").position.y, stood |-> FALSE]
         \/ \E g \in FallGrounds :
              /\ player = [Player_init("Survival") EXCEPT
                              !.health = h,
                              !.position = Vec3(500, g * BLOCK_SIZE + EPSILON, 500),
                              !.fall_start_y = g * BLOCK_SIZE + EPSILON,
                              !.on_ground = TRUE]
              /\ sweep = [pc |-> "fall", ground |-> g, dt |-> f, frames |-> 0,
                          delta |-> 0, allowed |-> 0,
                          peak |-> g * BLOCK_SIZE + EPSILON, stood |-> TRUE]

\* The y sweep of a frame clamped a downward movement: the player is on the
\* ground.
Landed(s) == s.delta < 0 /\ s.allowed # s.delta

\* A frame: Player.update(keys, dt, move_input), the jump key up or down, over
\* ground that is not above the player's feet; a player who has died is put
\* back over the ground of the spawn point.
PlayerUpdate ==
    /\ sweep.pc = "fall"
    /\ sweep.frames < MaxFallFrames
    /\ \E jump \in BOOLEAN, ground \in FallGrounds \cup {SpawnGround} :
         \E g \in {swept_player(player, jump, sweep.dt)} :
           /\ ground * BLOCK_SIZE <= g.position.y
           /\ player.health <= 0 => ground = SpawnGround
           /\ player' = Player_fall(g, sweep.dt, ground)
           /\ \E dy \in {mul(g.velocity.y, sweep.dt)} :
              \E allowed_dy \in {ground_sweep(ground, player_aabb(g), dy)} :
                sweep' = [sweep EXCEPT
                            !.ground = ground, !.frames = @ + 1,
                            !.delta = dy, !.allowed = allowed_dy,
                            !.stood = (dy < 0 /\ allowed_dy # dy)
                                      \/ (@ /\ player.health > 0),
                            !.peak = IF dy < 0 /\ allowed_dy # dy
                                     THEN g.position.y + allowed_dy
                                     ELSE Max2(IF player.health <= 0
                                               THEN g.position.y ELSE @,
                                               g.position.y + allowed_dy)]
    /\ UNCHANGED <<chunks, chunk_nodes, preload_complete, chunk_files, last, written,
                   mob_system>>

SpecFall == InitFall /\ [][PlayerUpdate]_vars

\* C20: whenever a Survival player lands (its downward sweep is blocked) at
\* height h after having reached peak height p since it last stood on the
\* ground, by a jump or by walking off an edge, it takes exactly
\* max(0, int(p - h - 3)) points of fall damage, and fall_start_y at the
\* landing is p.
C20_FallDamage ==
    [][(/\ sweep.pc = "fall" /\ sweep'.frames = sweep.frames + 1
        /\ player.game_mode = "Survival"
        /\ player.health > 0
        /\ sweep.stood
        /\ Landed(sweep'))
       => /\ player'.health =
                Max2(0, update_survival(player, sweep.dt).health
                        - BLOCK_SIZE * Max2(0, quot(sweep.peak - player'.position.y
                                                    - 3 * BLOCK_SIZE, BLOCK_SIZE)))
          /\ player.fall_start_y = sweep.peak]_vars

\* C28: after every Player.update of a player who does not fly, on_ground is
\* true only if the downward movement of that update was blocked; a jump
\* impulse (velocity.y = JUMP_SPEED before gravity) is applied only on a
\* rising edge of the jump key and only to a player who stands on a block:
\* one whose previous update was blocked downwards, or who stood at the
\* start of the run.
C28_OnGroundMeansBlocked ==
    [][(sweep.pc = "fall" /\ sweep'.frames = sweep.frames + 1) =>
         /\ player'.on_ground => Landed(sweep')
         /\ sweep'.delta = mul(JUMP_SPEED - mul(GRAVITY, sweep.dt), sweep.dt) =>
              /\ player'.keys_prev_jump /\ ~player.keys_prev_jump
              /\ Landed(sweep) \/ (sweep.frames = 0 /\ player.on_ground)]_vars

(* ----------------------------------------------------------------------- *)
(* Block breaking (Player.update_breaking, App._update)                    *)
(* The breaking progress is in thousandths, the hardness in milliseconds;  *)
(* None is <<>> as a block position and -1 as a block type or a hardness.  *)
(* ----------------------------------------------------------------------- *)
\* settings.BLOCK_HARDNESS of the block types of the terrain; the unbreakable
\* bedrock has None.
BLOCK_HARDNESS ==
    [t \in {BLOCK_GRASS, BLOCK_DIRT, BLOCK_STONE, BLOCK_BEDROCK} |->
        CASE t = BLOCK_GRASS -> 600
          [] t = BLOCK_DIRT -> 500
          [] t = BLOCK_STONE -> 1500
          [] t = BLOCK_BEDROCK -> 0 - 1]

\* Player.start_breaking
start_breaking(p, block_pos, block_type) ==
    IF p.breaking_block # block_pos
    THEN [p EXCEPT !.breaking_block = block_pos, !.breaking_progress = 0,
                   !.breaking_block_type = block_type]
    ELSE p

\* Player.reset_breaking
reset_breaking(p) ==
    [p EXCEPT !.breaking_block = <<>>, !.breaking_progress = 0,
              !.breaking_block_type = 0 - 1,
              !.creative_block_broken_this_click = FALSE]

\* Player.update_breaking: [p, ret]
update_breaking(p, dt) ==
    IF p.breaking_block = <<>> \/ p.breaking_block_type = 0 - 1
    THEN [p |-> p, ret |-> FALSE]
    ELSE IF BLOCK_HARDNESS[p.breaking_block_type] = 0 - 1
    THEN [p |-> p, ret |-> FALSE]
    ELSE IF p.game_mode = "Creative"
    THEN IF ~p.creative_block_broken_this_click
         THEN [p |-> [p EXCEPT !.creative_block_broken_this_click = TRUE,
                               !.breaking_block = <<>>, !.breaking_progress = 0,
                               !.breaking_block_type = 0 - 1],
               ret |-> TRUE]
         ELSE [p |-> p, ret |-> FALSE]
    ELSE IF p.breaking_progress + (dt * 1000) \div BLOCK_HARDNESS[p.breaking_block_type]
               >= 1000
    THEN [p |-> reset_breaking(p), ret |-> TRUE]
    ELSE [p |-> [p EXCEPT !.breaking_progress =
                     @ + (dt * 1000) \div BLOCK_HARDNESS[p.breaking_block_type]],
          ret |-> FALSE]

\* What the crosshair can be on: the mob, nothing, or a block of the column
\* (1, 1) and of the pit beside it.
BreakTargets == {<<1, 2, 1>>, <<1, 1, 1>>, <<1, 0, 1>>, <<0, 1, 1>>}

\* The preloaded world, a sheep within reach and a player of either game
\* mode, the left mouse button up; last holds the button, the result of
\* update_breaking in the frame and the number of times it returned True since
\* the button went down.
InitBreak ==
    /\ chunks = SweepWorld.C
    /\ chunk_nodes = SweepWorld.N
    /\ preload_complete = TRUE
    /\ chunk_files = EmptyMap
    /\ written = EmptyMap
    /\ sweep = NoSweep
    /\ mob_system = [pc |-> "break",
                     mobs |-> <<Mob_init(MOB_SHEEP, Vec3(500, 2 * BLOCK_SIZE + EPSILON,
                                                           BLOCK_SIZE + 500), 0, 2000)>>,
                     dt |-> 50]
    /\ \E g \in {"Survival", "Creative"} :
           player = [Player_init(g) EXCEPT !.position = PlayerStand]
    /\ last = [op |-> "frame", left_mouse_down |-> FALSE, ret |-> FALSE, broken |-> 0]

\* The combat and block breaking of a frame of App._update, the left mouse
\* button being down or up in it and the crosshair on a mob, on the block look
\* or on nothing; a block that update_breaking reports broken is removed and
\* saved.
BreakingFrame(down, aim, look) ==
    /\ last.op = "frame"
    /\ aim = "block" => get_block(look[1], look[2], look[3]) # BLOCK_AIR
    /\ aim = "mob" => ~mob_system.mobs[1].is_dead
    /\ mob_system' = IF down /\ aim = "mob"
                     THEN [mob_system EXCEPT !.mobs[1] = damage(@, 2000)]
                     ELSE mob_system
    /\ \E r \in {IF down /\ aim = "block"
                 THEN update_breaking(
                          start_breaking(player, look,
                                         get_block(look[1], look[2], look[3])),
                          mob_system.dt)
                 ELSE [p |-> reset_breaking(player), ret |-> FALSE]} :
         /\ player' = r.p
         /\ \E w \in {IF r.ret THEN remove_block(chunks, look[1], look[2], look[3])
                      ELSE [C |-> chunks, ok |-> FALSE]} :
              /\ chunks' = w.C
              /\ chunk_files' = IF w.ok
                                THEN save_block_edit(chunk_files, w.C,
                                                     look[1], look[2], look[3])
                                ELSE chunk_files
         /\ last' = [last EXCEPT !.left_mouse_down = down, !.ret = r.ret,
                                 !.broken = IF ~down THEN 0
                                            ELSE (IF last.left_mouse_down THEN @ ELSE 0)
                                                 + (IF r.ret THEN 1 ELSE 0)]
    /\ UNCHANGED <<chunk_nodes, preload_complete, written, sweep>>

NextBreak ==
    \E down \in BOOLEAN, aim \in {"block", "mob", "air"}, look \in BreakTargets :
        BreakingFrame(down, aim, look)

SpecBreak == InitBreak /\ [][NextBreak]_vars

\* C21: in Creative mode update_breaking returns True at most once between a
\* press of the left mouse button and its release, whatever the crosshair is
\* on while the button is held.
C21_OneBreakPerClick ==
    (last.op = "frame" /\ player.game_mode = "Creative") => last.broken <= 1

\* ---------------------------------------------------------------------------
\* The death of a mob

\* The preloaded world with one mob near the standing player, a hit away from
\* its death.
InitDeath ==
    /\ chunks = SweepWorld.C
    /\ chunk_nodes = SweepWorld.N
    /\ preload_complete = TRUE
    /\ chunk_files = EmptyMap
    /\ last = [NoCall EXCEPT !.op = "preload", !.ok = TRUE,
                             !.center = SweepWorld.center,
                             !.created = SweepWorld.created,
                             !.builds = SweepWorld.builds]
    /\ written = EmptyMap
    /\ sweep = NoSweep
    /\ \E t \in {MOB_ZOMBIE, MOB_SHEEP}, s \in MobStarts, f \in {20, 50},
          d \in {DIFFICULTY_NORMAL, DIFFICULTY_HARD} :
           mob_system = [pc |-> "run",
                         mobs |-> <<[Mob_init(t, s, 0, 2000) EXCEPT !.health = 2000]>>,
                         spawn_timer |-> 0, spawn_interval |-> 5000,
                         difficulty |-> d, dt |-> f, frames |-> 0, dropped |-> 0]
    /\ player = [Player_init("Survival") EXCEPT !.position = PlayerStand,
                                                !.fall_start_y = PlayerStand.y]

SpecDeath == InitDeath /\ [][NextMobs]_vars

\* C25: a mob whose health reaches 0 is dead; a dead mob cannot be damaged
\* again, and a MobSystem.update neither moves it nor lets it damage the
\* player; its death_timer grows by dt in every update until the update that
\* removes it from the list, which spawns its drops, once.
C25_DeadMobDropsOnce ==
    [][(mob_system.pc = "run" /\ Len(mob_system.mobs) = 1) =>
         /\ (Len(mob_system'.mobs) = 1 /\ mob_system'.mobs[1].health <= 0) =>
                mob_system'.mobs[1].is_dead
         /\ mob_system.mobs[1].is_dead =>
              /\ damage(mob_system.mobs[1], 2000) = mob_system.mobs[1]
              /\ mob_system'.frames = mob_system.frames + 1 =>
                   /\ player'.health = player.health
                   /\ IF Len(mob_system'.mobs) = 1
                      THEN /\ mob_system'.mobs[1] =
                                [mob_system.mobs[1] EXCEPT
                                    !.death_timer = @ + mob_system.dt]
                           /\ mob_system.mobs[1].death_timer <= 100
                           /\ mob_system'.dropped = 0
                      ELSE mob_system'.dropped = 1]_vars

\* ---------------------------------------------------------------------------
\* The spawn cycle of the mob system

\* The terrain the spawner reads: 4 blocks high from x = 0 eastwards, where a
\* mob may spawn, and 2 blocks high west of it, where the height test rejects
\* the column.
spawn_terrain == [w \in Int \X Int |-> IF w[1] >= 0 THEN 4 ELSE 2]

SpawnFrames == 3

\* The mob system a frame before its spawn timer runs out, with no mob, a
\* hostile mob or an animal near the standing player.
InitSpawn ==
    /\ chunks = SweepWorld.C
    /\ chunk_nodes = SweepWorld.N
    /\ preload_complete = TRUE
    /\ chunk_files = EmptyMap
    /\ last = [op |-> "init", time_of_day |-> 200, spawned |-> {}]
    /\ written = EmptyMap
    /\ sweep = NoSweep
    /\ \E ms \in {<<>>, <<Mob_init(MOB_ZOMBIE, PlayerStand, 0, 2000)>>,
                   <<Mob_init(MOB_SHEEP, PlayerStand, 0, 2000)>>},
          d \in {DIFFICULTY_PEACEFUL, DIFFICULTY_NORMAL, DIFFICULTY_HARD} :
           mob_system = [pc |-> "spawn", mobs |-> ms,
                         spawn_timer |-> 4950, spawn_interval |-> 5000,
                         difficulty |-> d, dt |-> 50, frames |-> 0, dropped |-> 0]
    /\ player = [Player_init("Creative") EXCEPT !.position = PlayerStand,
                                                !.fall_start_y = PlayerStand.y]

\* A frame of the spawn cycle: MobSystem.update(dt, player, time_of_day); the
\* lists of mobs the spawner could leave in this call are kept in last.spawned
SpawnCycle ==
    /\ mob_system.pc = "spawn"
    /\ mob_system.frames < SpawnFrames
    /\ \E time_of_day \in {200, 500, 600, 900}, rnd \in RandomDraws :
         /\ \E r \in MobSystem_update(spawn_terrain, chunks, mob_system, player,
                                      mob_system.dt, time_of_day, rnd) :
              /\ mob_system' = [r.mob_system EXCEPT !.frames = @ + 1]
              /\ player' = r.player
         /\ last' = [op |-> "mob_update", time_of_day |-> time_of_day,
                     spawned |-> IF mob_system.spawn_timer + mob_system.dt
                                       >= mob_system.spawn_interval
                                 THEN try_spawn_mobs(spawn_terrain, chunks,
                                          mob_system.mobs, player.position,
                                          night(time_of_day), mob_system.difficulty,
                                          rnd)
                                 ELSE {mob_system.mobs}]
    /\ UNCHANGED <<chunks, chunk_nodes, preload_complete, chunk_files, written,
                   sweep>>

SpecSpawn == InitSpawn /\ [][SpawnCycle]_vars

\* C22: after every MobSystem.update a hostile mob is in the mob list only if
\* the time of day is in the night interval [0.5, 0.9) and the difficulty is
\* not Peaceful; the spawner adds at most one mob per cycle, a hostile one
\* only at night on a non-Peaceful difficulty and an animal only outside the
\* night interval.
C22_HostilesOnlyByNight ==
    [][mob_system'.frames = mob_system.frames + 1 =>
         /\ \A i \in DOMAIN mob_system'.mobs :
                mob_system'.mobs[i].is_hostile =>
                    /\ night(last'.time_of_day)
                    /\ mob_system'.difficulty # DIFFICULTY_PEACEFUL
         /\ \A M \in last'.spawned :
                /\ Len(M) <= Len(mob_system.mobs) + 1
                /\ SubSeq(M, 1, Len(mob_system.mobs)) = mob_system.mobs
                /\ Len(M) > Len(mob_system.mobs) =>
                      IF M[Len(M)].is_hostile
                      THEN /\ night(last'.time_of_day)
                           /\ mob_system.difficulty # DIFFICULTY_PEACEFUL
                      ELSE ~night(last'.time_of_day)]_vars

\* A hostile mob spawned by night stands in the list after the update
C22_HostileSpawned ==
    /\ mob_system.pc = "spawn"
    /\ last.op = "mob_update"
    /\ \E M \in last.spawned : Len(M) > 0 /\ M[Len(M)].is_hostile
                                /\ M[Len(M)].position.y = 5 * BLOCK_SIZE
    /\ \E i \in DOMAIN mob_system.mobs : mob_system.mobs[i].is_hostile

\* ---------------------------------------------------------------------------
\* Landing in one physics step

\* How far above the ground the falling player starts, its speed of fall and
\* the time steps, up to 4 seconds; the frames of a run that are left.
LandFrames == 3
LandDrops == {EPSILON, 500, 3700}
LandSpeeds == {0, 0 - 5000, 0 - 60000}
LandSteps == {50, 1000, 4000}

\* A Survival player in the air over the ground, falling straight down
InitLand ==
    /\ chunks = EmptyMap
    /\ chunk_nodes = {}
    /\ preload_complete = FALSE
    /\ chunk_files = EmptyMap
    /\ last = NoCall
    /\ written = EmptyMap
    /\ mob_system = NoMobSystem
    /\ \E f \in LandSteps, g \in FallGrounds, d \in LandDrops, v \in LandSpeeds :
         /\ player = [Player_init("Survival") EXCEPT
                         !.position = Vec3(500, g * BLOCK_SIZE + d, 500),
                         !.velocity = Vec3(0, v, 0),
                         !.fall_start_y = g * BLOCK_SIZE + d,
                         !.last_on_ground = FALSE]
         /\ sweep = [pc |-> "fall", ground |-> g, dt |-> f,
                     frames |-> MaxFallFrames - LandFrames,
                     delta |-> 0, allowed |-> 0,
                     peak |-> g * BLOCK_SIZE + d, stood |-> FALSE]

SpecLand == InitLand /\ [][PlayerUpdate]_vars

\* C24 as stated: when the downward movement of a player falling straight
\* down is blocked by the floor in a physics step, whatever the time step,
\* the min_y of its box after the step equals the height of the floor,
\* on_ground is true and velocity.y is 0.
C24_LandsAtFloorHeight ==
    [][(sweep'.frames = sweep.frames + 1 /\ Landed(sweep')) =>
           /\ player_aabb(player').min_y = sweep'.ground * BLOCK_SIZE
           /\ player'.on_ground
           /\ player'.velocity.y = 0]_vars

\* C24, amended: the min_y of the box after the step is the height of the
\* floor plus EPSILON, never below the floor; on_ground is true and
\* velocity.y is 0.
C24_LandsOnFloor ==
    [][(sweep'.frames = sweep.frames + 1 /\ Landed(sweep')) =>
           /\ player_aabb(player').min_y = sweep'.ground * BLOCK_SIZE + EPSILON
           /\ player'.on_ground
           /\ player'.velocity.y = 0]_vars

\* A step of 4 seconds has landed a player that fell from 3.7 blocks up
C24_LandedInOneLongStep ==
    /\ sweep.pc = "fall" /\ sweep.dt = 4000
    /\ sweep.frames = MaxFallFrames - LandFrames + 1
    /\ Landed(sweep) /\ sweep.delta < 0 - 100 * BLOCK_SIZE
    /\ sweep.peak = sweep.ground * BLOCK_SIZE + EPSILON
    /\ player.on_ground

\* ---------------------------------------------------------------------------
\* Meshes and the chunks next to them

\* C26: the mesh of a loaded chunk that is not dirty holds the faces a fresh
\* build_mesh would emit.  A mesh is built from the world of its build and
\* is rebuilt only when the chunk is dirty or has no node, so the claim says
\* that a step which leaves a chunk loaded, meshed and not dirty leaves the
\* faces build_mesh emits for it unchanged, the creation and the eviction of
\* an edge-adjacent chunk included.
C26_MeshesFresh ==
    [][\A k \in DOMAIN chunks \cap DOMAIN chunks' :
          (~chunks[k].dirty /\ k \in chunk_nodes /\ ~chunks'[k].dirty) =>
              build_mesh(chunks', k[1], k[2]) = build_mesh(chunks, k[1], k[2])]_vars

\* ---------------------------------------------------------------------------
\* The two block queries

\* C27: in every reachable state and at every coordinate, in a loaded or an
\* unloaded chunk and at any y, is_solid is true exactly when get_block is
\* not AIR; in an unloaded chunk get_block returns the block the chunk holds
\* once _ensure_chunk has generated it.
C27_QueriesAgree ==
    \A w \in ProbeCoords :
        /\ is_solid(w[1], w[2], w[3]) <=> (get_block(w[1], w[2], w[3]) # BLOCK_AIR)
        /\ (w[2] \in 0..(CHUNK_SIZE_Y - 1) /\ key_of(w) \notin DOMAIN chunks) =>
               get_block(w[1], w[2], w[3]) =
                   ensure_chunk(chunks, key_of(w)[1], key_of(w)[2],
                                chunk_files)[key_of(w)].blocks[cell_of(w)]

\* ---------------------------------------------------------------------------
\* Mobs over chunks that are not created yet

\* Where the player stands after a step to the west, in chunk (-1, 0), and
\* the columns of the chunks (-2, 0) and (-2, -1), which World.update has
\* yet to create, where the spawner has put a sheep on top of the terrain.
StreamStand == Vec3(0 - CHUNK_SIZE_X * BLOCK_SIZE + BLOCK_SIZE + 500,
                    3 * BLOCK_SIZE + EPSILON, BLOCK_SIZE + 500)
StreamColumns == {<<1 - 2 * CHUNK_SIZE_X, 1>>, <<1 - 2 * CHUNK_SIZE_X, 1 - CHUNK_SIZE_Z>>}

\* The world preloaded around chunk (0, 0), the player one chunk to the west
\* of it, and a sheep just spawned in a chunk within RENDER_DISTANCE of the
\* player that is not created yet.
InitStream ==
    /\ chunks = SweepWorld.C
    /\ chunk_nodes = SweepWorld.N
    /\ preload_complete = TRUE
    /\ chunk_files = EmptyMap
    /\ last = [NoCall EXCEPT !.op = "preload", !.ok = TRUE,
                             !.center = SweepWorld.center,
                             !.created = SweepWorld.created,
                             !.builds = SweepWorld.builds]
    /\ written = EmptyMap
    /\ sweep = NoSweep
    /\ \E w \in StreamColumns, f \in {20, 50} :
           mob_system = [pc |-> "run",
                         mobs |-> <<Mob_init(MOB_SHEEP,
                                       Vec3(w[1] * BLOCK_SIZE + 500,
                                            (terrain_height(w[1], w[2]) + 1) * BLOCK_SIZE,
                                            w[2] * BLOCK_SIZE + 500), 0, 2000)>>,
                         spawn_timer |-> 0, spawn_interval |-> 5000,
                         difficulty |-> DIFFICULTY_NORMAL, dt |-> f, frames |-> 0,
                         dropped |-> 0]
    /\ player = [Player_init("Creative") EXCEPT !.position = StreamStand,
                                                !.fall_start_y = StreamStand.y]

\* App._update: World.update(player.position)
UpdateAtPlayer == Update(<<floor(player.position.x), floor(player.position.z)>>)

NextStream == UpdateAtPlayer \/ MobSystemUpdate

SpecStream == InitStream /\ [][NextStream]_vars

\* C29: under any interleaving of World.update with the physics updates of
\* the mobs, a mob whose box overlaps no solid block does not come to
\* overlap one, neither by its own movement nor by the creation of the chunk
\* it is in.
C29_NeverEnclosed ==
    [][(/\ mob_system.pc = "run"
        /\ Len(mob_system.mobs) = 1 /\ Len(mob_system'.mobs) = 1
        /\ ~overlaps_solid(chunks, get_aabb(mob_system.mobs[1])))
       => ~overlaps_solid(chunks', get_aabb(mob_system'.mobs[1]))]_vars


(* ----------------------------------------------------------------------- *)
(* Trees (util.should_place_tree, util.generate_tree and the tree loop of  *)
(* World._populate_chunk_blocks)                                           *)
(* The simplex noise of a world is a function of its seed; a seed is held  *)
(* as what the noise answers: the grid positions where the tree noise      *)
(* passes, whether the height noise gives the taller trunk, and the field  *)
(* of the gap noise. Noise values are in thousandths. A tree stands above  *)
(* the terrain, so the world of trees keeps, for every created chunk, the  *)
(* set of its blocks <<wx, wy, wz, block_id>> above the terrain, in a      *)
(* world TreeSizeY blocks high. get_tree_type answers 'oak' here.          *)
(* ----------------------------------------------------------------------- *)
BLOCK_WOOD == 6
BLOCK_LEAVES == 7

TreeSizeY == 4 * CHUNK_SIZE_Y

\* util._simplex_noise_2d of the gap noise, by the field of the seed.
gap_noise(seed, x, z) ==
    IF seed.gaps = "high" THEN 500
    ELSE IF seed.gaps = "low" THEN 0 - 500
    ELSE IF (x + 2 * z) % 3 = 0 THEN 500
    ELSE IF (x + 2 * z) % 3 = 1 THEN 100
    ELSE 0 - 500

\* util.should_place_tree
should_place_tree(seed, wx, wz) ==
    /\ get_biome(wx, wz) # "desert"
    /\ wx % 10 = 0 /\ wz % 10 = 0
    /\ <<wx, wz>> \in seed.trees

\* util.generate_tree: the placement list; its positions are distinct, so
\* that it is held as a set.
generate_tree(seed, wx, wy, wz) ==
    LET trunk_height == IF seed.tall THEN 5 ELSE 4
        leaf_center_y == wy + trunk_height - 1
        around == {d \in (-1..1) \X (-1..1) : d # <<0, 0>>}
        trunk == {<<wx, wy + y_offset, wz, BLOCK_WOOD>> : y_offset \in 0..(trunk_height - 1)}
        cap   == {<<wx + d[1], leaf_center_y + 1, wz + d[2], BLOCK_LEAVES>> :
                     d \in {e \in around : gap_noise(seed, wx + e[1], wz + e[2]) >= 0}}
        main  == {<<wx + d[1], leaf_center_y, wz + d[2], BLOCK_LEAVES>> :
                     d \in {e \in around :
                               (e[1] # 0 /\ e[2] # 0) =>
                                   gap_noise(seed, wx + e[1], wz + e[2]) >= 300}}
        lower == {<<wx + d[1], leaf_center_y - 1, wz + d[2], BLOCK_LEAVES>> :
                     d \in {e \in around : e[1] = 0 \/ e[2] = 0}}
    IN  trunk \cup cap \cup main \cup lower

\* World._populate_chunk_blocks, the tree loop: the tree blocks of chunk
\* (cx, cz), from the trees rooted in its own columns.
populate_trees(seed, cx, cz) ==
    LET wx0 == cx * CHUNK_SIZE_X
        wz0 == cz * CHUNK_SIZE_Z
        of_column(lx, lz) ==
            LET wx == wx0 + lx
                wz == wz0 + lz
                th == terrain_height(wx, wz)
            IN  IF /\ should_place_tree(seed, wx, wz)
                   /\ populate_cell(cx, cz, lx, th, lz) = BLOCK_GRASS
                THEN {b \in generate_tree(seed, wx, th + 1, wz) :
                         /\ wx0 <= b[1] /\ b[1] < wx0 + CHUNK_SIZE_X
                         /\ wz0 <= b[3] /\ b[3] < wz0 + CHUNK_SIZE_Z
                         /\ 0 <= b[2] /\ b[2] < TreeSizeY}
                ELSE {}
    IN  UNION {of_column(c[1], c[2]) :
                  c \in (0..(CHUNK_SIZE_X - 1)) \X (0..(CHUNK_SIZE_Z - 1))}

\* The grid positions a seed may grow a tree at: at the west and north edge
\* of a chunk, in the middle of a chunk, at the east edge of a chunk.
TreeRoots == {<<0, 0>>, <<10, 10>>, <<20, 10>>}

TreeSeeds ==
    [trees : {{<<0, 0>>}, {<<10, 10>>}, TreeRoots},
     tall  : BOOLEAN,
     gaps  : {"high", "low", "mixed"}]

\* The tree of a seed rooted at r, as the generator returns it.
tree_of(seed, r) == generate_tree(seed, r[1], terrain_height(r[1], r[2]) + 1, r[2])

\* The chunk a block lies in.
tree_chunk(b) == <<chunk_coord(b[1], CHUNK_SIZE_X), chunk_coord(b[3], CHUNK_SIZE_Z)>>

\* The chunks any block of any tree of any seed falls into.
TreeKeys ==
    {tree_chunk(b) : b \in UNION {tree_of(seed, r) : seed \in TreeSeeds, r \in TreeRoots}}

\* A new world: a seed and no chunk.
InitTrees ==
    /\ chunks = EmptyMap
    /\ chunk_nodes = {}
    /\ preload_complete = FALSE
    /\ chunk_files = EmptyMap
    /\ \E seed \in TreeSeeds : last = [op |-> "seed", seed |-> seed, key |-> <<0, 0>>]
    /\ written = EmptyMap
    /\ sweep = NoSweep
    /\ mob_system = NoMobSystem
    /\ player = NoPlayer

\* World._ensure_chunk of a chunk that is not created yet, in any order.
EnsureTreeChunk ==
    \E key \in TreeKeys \ DOMAIN chunks :
        /\ chunks' = [k \in DOMAIN chunks \cup {key} |->
                         IF k = key
                         THEN [blocks |-> populate_trees(last.seed, key[1], key[2]),
                               dirty |-> TRUE]
                         ELSE chunks[k]]
        /\ last' = [last EXCEPT !.op = "ensure_chunk", !.key = key]
        /\ UNCHANGED <<chunk_nodes, preload_complete, chunk_files, written, sweep,
                       mob_system, player>>

SpecTrees == InitTrees /\ [][EnsureTreeChunk]_vars

\* The trees of the world that were placed: rooted in a created chunk, at a
\* position where should_place_tree holds, on grass.
PlacedTrees ==
    {r \in TreeRoots :
        /\ tree_chunk(<<r[1], 0, r[2]>>) \in DOMAIN chunks
        /\ should_place_tree(last.seed, r[1], r[2])
        /\ populate_cell(chunk_coord(r[1], CHUNK_SIZE_X), chunk_coord(r[2], CHUNK_SIZE_Z),
                         r[1] % CHUNK_SIZE_X, terrain_height(r[1], r[2]),
                         r[2] % CHUNK_SIZE_Z) = BLOCK_GRASS}

\* C30: once every chunk that a placed tree's blocks fall into is created,
\* every block of the list generate_tree returned for it is in the world,
\* the canopy blocks in the chunks next to the trunk's chunk included, in
\* whatever order the chunks were created.
C30_TreesWhole ==
    \A r \in PlacedTrees :
        (\A b \in tree_of(last.seed, r) : tree_chunk(b) \in DOMAIN chunks)
            => \A b \in tree_of(last.seed, r) : b \in chunks[tree_chunk(b)].blocks

\* A tree in the middle of its chunk stands whole.
C30_InnerTreeWhole ==
    /\ <<10, 10>> \in PlacedTrees
    /\ \A b \in tree_of(last.seed, <<10, 10>>) :
           /\ tree_chunk(b) \in DOMAIN chunks
           /\ b \in chunks[tree_chunk(b)].blocks

============================================================================
